---- MODULE Spec2Model ----
(***************************************************************************)
(* A model of the baby-malloc allocator: spans obtained with mmap(2), each *)
(* split into blocks with a 48-byte header, boundary-tag footers on free   *)
(* blocks, and the four public entries m_malloc, m_free, m_calloc and      *)
(* m_realloc.                                                              *)
(*                                                                         *)
(* Memory is an array of 8-byte words.  Addresses and the sizes kept in    *)
(* the heap are integers; a 64-bit value (a size_t argument, the content   *)
(* of a word) is a tuple of four 16-bit limbs, least significant first,    *)
(* so that size arithmetic wraps modulo 2^64 as it does in the program.    *)
(***************************************************************************)
EXTENDS Integers, Sequences, FiniteSets, TLC

(***************************************************************************)
(* Program constants.                                                      *)
(***************************************************************************)
ALIGNMENT == 16
MIN_BLKSZ == 64
MIN_MMAPSZ == 65536
SPAN_HDR_PADSZ == 32
BLOCK_HDR_PADSZ == 48
SPAN_CACHE == 1
WORD == 8
PageSize == 4096

(***************************************************************************)
(* Bounds of the model.                                                    *)
(***************************************************************************)
\* number of 64 KiB regions of address space the page provider can hand out
NSlots == 3
\* most payloads the caller holds at once
MaxLive == 3
\* most operations the caller issues
MaxOps == 4

(***************************************************************************)
(* 64-bit unsigned arithmetic on four 16-bit limbs.                        *)
(***************************************************************************)
LIMB == 65536

U64(n) == <<n % LIMB, n \div LIMB, 0, 0>>

\* the value fits the integers used for addresses and heap sizes (< 2^30)
Fits(w) == w[3] = 0 /\ w[4] = 0 /\ w[2] < 16384

Narrow(w) == w[1] + w[2] * LIMB

WAdd(a, b) ==
    LET s1 == a[1] + b[1]
        s2 == a[2] + b[2] + (s1 \div LIMB)
        s3 == a[3] + b[3] + (s2 \div LIMB)
        s4 == a[4] + b[4] + (s3 \div LIMB)
    IN  <<s1 % LIMB, s2 % LIMB, s3 % LIMB, s4 % LIMB>>

\* a - b modulo 2^64: a + ~b + 1
WSub(a, b) ==
    LET s1 == a[1] + (LIMB - 1 - b[1]) + 1
        s2 == a[2] + (LIMB - 1 - b[2]) + (s1 \div LIMB)
        s3 == a[3] + (LIMB - 1 - b[3]) + (s2 \div LIMB)
        s4 == a[4] + (LIMB - 1 - b[4]) + (s3 \div LIMB)
    IN  <<s1 % LIMB, s2 % LIMB, s3 % LIMB, s4 % LIMB>>

WLt(a, b) ==
    \/ a[4] < b[4]
    \/ a[4] = b[4] /\ a[3] < b[3]
    \/ a[4] = b[4] /\ a[3] = b[3] /\ a[2] < b[2]
    \/ a[4] = b[4] /\ a[3] = b[3] /\ a[2] = b[2] /\ a[1] < b[1]

WLe(a, b) == ~WLt(b, a)

\* product of two limbs as <<low limb, high limb>>, on 8-bit halves so that
\* no intermediate value leaves the 32-bit integers
LimbMul(x, y) ==
    LET xl == x % 256
        xh == x \div 256
        yl == y % 256
        yh == y \div 256
        p0 == xl * yl
        p1 == xl * yh + xh * yl
        p2 == xh * yh
        lo == p0 + (p1 % 256) * 256
    IN  <<lo % LIMB, p2 + (p1 \div 256) + (lo \div LIMB)>>

\* a * b modulo 2^64
WMul(a, b) ==
    LET P(i, j) == LimbMul(a[i], b[j])
        c1 == P(1,1)[1]
        c2 == P(1,1)[2] + P(1,2)[1] + P(2,1)[1]
        c3 == P(1,2)[2] + P(2,1)[2] + P(1,3)[1] + P(2,2)[1] + P(3,1)[1]
        c4 == P(1,3)[2] + P(2,2)[2] + P(3,1)[2]
              + P(1,4)[1] + P(2,3)[1] + P(3,2)[1] + P(4,1)[1]
        s2 == c2 + (c1 \div LIMB)
        s3 == c3 + (s2 \div LIMB)
        s4 == c4 + (s3 \div LIMB)
    IN  <<c1 % LIMB, s2 % LIMB, s3 % LIMB, s4 % LIMB>>

\* ALIGN_UP(n, a) == ((n) + (a) - 1) & ~((a) - 1), a a power of two <= 2^16
ALIGN_UP(n, a) ==
    LET t == WAdd(n, U64(a - 1))
    IN  <<t[1] - (t[1] % a), t[2], t[3], t[4]>>

usz_max(a, b) == IF WLt(b, a) THEN a ELSE b

\* gross size needed to serve a request of size bytes
gross_size(size) == WAdd(U64(BLOCK_HDR_PADSZ), ALIGN_UP(size, ALIGNMENT))

\* the gross size of a request, never below the minimum block size
blksizerequest(size) == usz_max(gross_size(size), U64(MIN_BLKSZ))

(***************************************************************************)
(* Memory.  The content of the address space is the run-length encoding    *)
(* of its array of words: a sequence of runs <<a, w>>, sorted by address,  *)
(* each saying that every word from address a up to the next run's address *)
(* holds w.  The first run starts at address 0 and no two consecutive runs *)
(* hold the same word, so equal memories are equal sequences.              *)
(***************************************************************************)
ZERO == <<0, 0, 0, 0>>
\* a word outside every mapping
UNMAPPED == <<-1, 0, 0, 0>>
\* eight bytes of POISON_BYTE
POISON_WORD == <<44718, 44718, 44718, 44718>>
\* eight bytes written by the caller into a payload
USER_WORD == <<23131, 23130, 23130, 23130>>
\* low 32 bits of the magic tags
MAGIC_BABY == <<48830, 48830>>
MAGIC_SPENT == <<57054, 57054>>

\* number of runs of m that start at or below a
RunsUpTo(m, a) == Cardinality({i \in DOMAIN m : m[i][1] <= a})

Rd(m, a) == m[RunsUpTo(m, a)][2]

\* concatenation that merges the two runs at the joint when they hold the
\* same word
Join(x, y) ==
    IF x # <<>> /\ y # <<>> /\ x[Len(x)][2] = y[1][2] THEN x \o Tail(y) ELSE x \o y

\* the words of [lo, hi) are replaced by the runs mid (the first one at lo)
Splice(m, lo, hi, mid) ==
    LET pre == SubSeq(m, 1, RunsUpTo(m, lo - 1))
        post == <<<<hi, Rd(m, hi)>>>> \o SubSeq(m, RunsUpTo(m, hi) + 1, Len(m))
    IN  Join(Join(pre, mid), post)

Wr(m, a, v) == IF Rd(m, a) = v THEN m ELSE Splice(m, a, a + WORD, <<<<a, v>>>>)

\* memset(a, byte, n) with n a multiple of the word size, v the word of bytes
Fill(m, a, n, v) == IF n <= 0 THEN m ELSE Splice(m, a, a + n, <<<<a, v>>>>)

\* the runs of the words of [lo, lo + n), as addresses relative to base
RunsOf(m, lo, n, at) ==
    LET first == RunsUpTo(m, lo) + 1
        last == RunsUpTo(m, lo + n - 1)
    IN  <<<<at, Rd(m, lo)>>>>
        \o [k \in 1 .. (last - first + 1) |->
              <<at + (m[first + k - 1][1] - lo), m[first + k - 1][2]>>]

\* memcpy(dst, src, n), the ranges disjoint
Copy(m, dst, src, n) ==
    IF n <= 0 THEN m ELSE Splice(m, dst, dst + n, RunsOf(m, src, n, dst))

\* every word of [lo, hi) holds v
AllWords(m, lo, hi, v) ==
    hi <= lo \/ (Rd(m, lo) = v /\ RunsUpTo(m, hi - 1) = RunsUpTo(m, lo))

\* the words of [lo, lo + n) in m1 equal those of [lo2, lo2 + n) in m2
SameWords(m1, lo, m2, lo2, n) ==
    n <= 0 \/ RunsOf(m1, lo, n, 0) = RunsOf(m2, lo2, n, 0)

(***************************************************************************)
(* The allocator state handled by the operators below is a record:         *)
(*   mem        the memory                                                 *)
(*   spans      span header fields, by span address (struct span)          *)
(*   base       head of the span list                                      *)
(*   span_count number of spans in the list                                *)
(*   pagesize   0 until the first m_malloc                                 *)
(*   maps       the page provider's live mappings, address -> length       *)
(*   halted     "" or the name of the assertion that stopped the process   *)
(*   mmaps      mmap calls of the running operation, <<length, result>>    *)
(*   munmaps    munmap calls of the running operation, <<address, length>> *)
(***************************************************************************)
Require(s, c, name) == IF s.halted = "" /\ ~c THEN [s EXCEPT !.halted = name] ELSE s

\* t, unless the process has already stopped
Do(s, t) == IF s.halted # "" THEN s ELSE t

SetWord(s, a, v) == Do(s, [s EXCEPT !.mem = Wr(s.mem, a, v)])

\* struct block field offsets
OFF_PREV == 8
OFF_NEXT == 16
OFF_OWNER == 24
OFF_MAGIC == 32

BIT_IN_USE == 1
BIT_PREV_IN_USE == 2

SizeWord(s, bp) == Rd(s.mem, bp)

Flags(w) == w[1] % 4

blkisfree(s, bp) == SizeWord(s, bp)[1] % 2 = 0

blkisprevfree(s, bp) == (SizeWord(s, bp)[1] \div 2) % 2 = 0

blksize(s, bp) ==
    LET w == SizeWord(s, bp) IN Narrow(<<w[1] - Flags(w), w[2], w[3], w[4]>>)

SetFlags(w, fl) == <<w[1] - Flags(w) + fl, w[2], w[3], w[4]>>

blksetfree(s, bp) ==
    LET w == SizeWord(s, bp)
    IN  SetWord(s, bp, SetFlags(w, Flags(w) - (Flags(w) % 2)))

blksetused(s, bp) ==
    LET w == SizeWord(s, bp)
    IN  SetWord(s, bp, SetFlags(w, Flags(w) - (Flags(w) % 2) + BIT_IN_USE))

blksetprevfree(s, bp) ==
    LET w == SizeWord(s, bp)
    IN  SetWord(s, bp, SetFlags(w, Flags(w) % 2))

blksetprevused(s, bp) ==
    LET w == SizeWord(s, bp)
    IN  SetWord(s, bp, SetFlags(w, (Flags(w) % 2) + BIT_PREV_IN_USE))

\* bp->size = size | (bp->size & BLK_MASK), size a multiple of 16
blksetsize(s, bp, size) ==
    LET w == SizeWord(s, bp)
        n == U64(size)
    IN  SetWord(s, bp, <<n[1] + Flags(w), n[2], n[3], n[4]>>)

blkprevfoot(bp) == bp - WORD

blkfoot(s, bp) == bp + blksize(s, bp) - WORD

\* blkpayload without the header's padding
blkpayload_unpadded(bp) == bp + BLOCK_HDR_PADSZ - WORD

blkpayload(bp) == bp + BLOCK_HDR_PADSZ

plblk(p) == p - BLOCK_HDR_PADSZ

plsize(s, bp) == blksize(s, bp) - BLOCK_HDR_PADSZ

\* pointer fields of a block header
PtrAt(s, a) == Narrow(Rd(s.mem, a))
blknext(s, bp) == PtrAt(s, bp + OFF_NEXT)
blkprev(s, bp) == PtrAt(s, bp + OFF_PREV)
blkowner(s, bp) == PtrAt(s, bp + OFF_OWNER)

\* bp->magic = tag: the low four bytes of the word at offset 32
SetMagic(s, bp, tag) ==
    LET w == Rd(s.mem, bp + OFF_MAGIC)
    IN  SetWord(s, bp + OFF_MAGIC, <<tag[1], tag[2], w[3], w[4]>>)

SetSpan(s, sp, field, v) == Do(s, [s EXCEPT !.spans[sp][field] = v])

spfirstblk(sp) == sp + SPAN_HDR_PADSZ

ptr_in_span(s, p, sp) == sp <= p /\ p <= sp + s.spans[sp].size

(***************************************************************************)
(* The page provider.  An mmap of len bytes, offered the region starting   *)
(* at slot * 64 KiB (slot 0: the provider refuses), succeeds when the      *)
(* length is not 0 and the whole region is inside the address space and    *)
(* unmapped.                                                               *)
(***************************************************************************)
MAP_FAILED == -1

SlotAddr(k) == k * MIN_MMAPSZ

TopAddr == SlotAddr(NSlots + 1)

RegionFree(s, a, len) ==
    \A b \in DOMAIN s.maps : b + s.maps[b] <= a \/ a + len <= b

mmap(s, len, slot) ==
    IF /\ slot # 0
       /\ Fits(len)
       /\ Narrow(len) > 0
       /\ SlotAddr(slot) + Narrow(len) <= TopAddr
       /\ RegionFree(s, SlotAddr(slot), Narrow(len))
    THEN SlotAddr(slot)
    ELSE MAP_FAILED

\* the blank span header of freshly mapped (zeroed) pages
NoSpan == [size |-> 0, prev |-> 0, next |-> 0, free_list |-> 0, blkcount |-> 0]

(***************************************************************************)
(* Block headers.                                                          *)
(***************************************************************************)
\* step F on state s, unless the process has already stopped
Then(s, F(_)) == IF s.halted # "" THEN s ELSE F(s)

\* step F on the state of x = [s |-> state, r |-> block], the block kept
ThenR(x, F(_, _)) == IF x.s.halted # "" THEN x ELSE [s |-> F(x.s, x.r), r |-> x.r]

blkinit(s, p, sp, size) ==
    LET s1 == Require(s, ptr_in_span(s, p, sp), "blkinit: p in span")
        s2 == Require(s1, p % ALIGNMENT = 0, "blkinit: p aligned")
        s3 == Require(s2, ptr_in_span(s, p + size, sp), "blkinit: end in span")
        s4 == blksetsize(s3, p, size)
        s5 == SetWord(s4, p + OFF_OWNER, U64(sp))
        s6 == SetWord(s5, p + OFF_PREV, ZERO)
    IN  SetWord(s6, p + OFF_NEXT, ZERO)

blkinitfree(s, p, sp, size) ==
    LET Foot(t) == SetWord(t, blkfoot(t, p), U64(size))
    IN  Then(blksetfree(SetMagic(blkinit(s, p, sp, size), p, MAGIC_BABY), p), Foot)

blkinitused(s, p, sp, size) ==
    SetMagic(blksetused(blkinit(s, p, sp, size), p), p, MAGIC_SPENT)

\* the block physically after bp, 0 when bp is the last of its span
blknextadj(s, bp) ==
    LET sp == blkowner(s, bp)
        next == bp + blksize(s, bp)
    IN  IF next >= sp + s.spans[sp].size THEN 0 ELSE next

\* the assertion of blknextadj
blknextadjOK(s, bp) == (bp + blksize(s, bp)) % ALIGNMENT = 0

\* blkprevadj without the test for the span header
blkprevadj_unguarded(s, bp) == bp - Narrow(Rd(s.mem, blkprevfoot(bp)))

\* the (free) block physically before bp, found by its footer; 0 when the
\* footer address lands in the span header
blkprevadj(s, bp) ==
    LET sp == blkowner(s, bp)
        ft == blkprevfoot(bp)
    IN  IF ft < sp + SPAN_HDR_PADSZ THEN 0 ELSE bp - Narrow(Rd(s.mem, ft))

\* the assertions of blkprevadj
blkprevadjOK(s, bp) ==
    /\ blkisprevfree(s, bp)
    /\ blkprevadj(s, bp) % ALIGNMENT = 0

(***************************************************************************)
(* Free lists.                                                             *)
(***************************************************************************)
\* blkprepend that does not make the old head point back at bp
blkprepend_no_backlink(s, bp) ==
    LET Link(t) ==
            SetSpan(SetWord(t, bp + OFF_NEXT, U64(t.spans[blkowner(t, bp)].free_list)),
                    blkowner(t, bp), "free_list", bp)
    IN  Then(Require(s, bp # 0 /\ blkisfree(s, bp), "blkprepend: free"), Link)


blkprepend(s, bp) ==
    LET Link(t) ==
            SetSpan(SetWord(t, bp + OFF_NEXT, U64(t.spans[blkowner(t, bp)].free_list)),
                    blkowner(t, bp), "free_list", bp)
        Back(t) ==
            IF blknext(t, bp) # 0 THEN SetWord(t, blknext(t, bp) + OFF_PREV, U64(bp)) ELSE t
    IN  Then(Then(Require(s, bp # 0 /\ blkisfree(s, bp), "blkprepend: free"), Link), Back)

blksever(s, bp) ==
    LET sp == blkowner(s, bp)
        nx == blknext(s, bp)
        pv == blkprev(s, bp)
        s1 == Require(s, nx # 0 => blkprev(s, nx) = bp, "blksever: next->prev")
        s2 == Require(s1, IF pv # 0 THEN blknext(s, pv) = bp
                          ELSE s.spans[sp].free_list = bp, "blksever: prev->next")
        First(t) == IF pv = 0 THEN SetSpan(t, sp, "free_list", nx)
                    ELSE SetWord(t, pv + OFF_NEXT, U64(nx))
        Second(t) == IF nx # 0 THEN SetWord(t, nx + OFF_PREV, U64(pv)) ELSE t
    IN  Then(Then(s2, First), Second)

RECURSIVE FindInList(_, _, _)
FindInList(s, bp, gross) ==
    IF bp = 0 THEN 0
    ELSE IF WLe(gross, U64(blksize(s, bp))) THEN bp
    ELSE FindInList(s, blknext(s, bp), gross)

RECURSIVE FindInSpans(_, _, _)
FindInSpans(s, sp, gross) ==
    IF sp = 0 THEN 0
    ELSE LET bp == FindInList(s, s.spans[sp].free_list, gross)
         IN  IF bp # 0 THEN bp ELSE FindInSpans(s, s.spans[sp].next, gross)

\* blkfind that searches the spans behind the head of the list first
blkfind_head_last(s, gross) ==
    IF s.base = 0 THEN 0
    ELSE IF FindInSpans(s, s.spans[s.base].next, gross) # 0
    THEN FindInSpans(s, s.spans[s.base].next, gross)
    ELSE FindInList(s, s.spans[s.base].free_list, gross)


\* blkfind without the loop over the spans
blkfind_first_span(s, gross) ==
    IF s.base = 0 THEN 0 ELSE FindInList(s, s.spans[s.base].free_list, gross)

blkfind(s, gross) == FindInSpans(s, s.base, gross)

(***************************************************************************)
(* Spans.                                                                  *)
(***************************************************************************)
\* the span size without the minimum of MIN_MMAPSZ
spansize_no_minimum(s, gross) == ALIGN_UP(WAdd(gross, U64(SPAN_HDR_PADSZ)), s.pagesize)

\* the span size requested for a block of gross bytes
spansize(s, gross) ==
    ALIGN_UP(usz_max(WAdd(gross, U64(SPAN_HDR_PADSZ)), U64(MIN_MMAPSZ)), s.pagesize)

\* SpanAt that sets PREV_IN_USE on the first block
SpanAt_marks_prev_used(s, sp, n) ==
    LET Map(t) == [t EXCEPT !.maps = [a \in DOMAIN @ \cup {sp} |-> IF a = sp THEN n ELSE @[a]],
                            !.mem = Fill(@, sp, n, ZERO),
                            !.spans = [a \in DOMAIN @ \cup {sp} |->
                                         IF a = sp
                                         THEN [NoSpan EXCEPT !.size = n, !.next = s.base]
                                         ELSE @[a]]]
        Prev(t) == IF s.base # 0 THEN SetSpan(t, s.base, "prev", sp) ELSE t
        Front(t) == [t EXCEPT !.base = sp]
        Block(t) == blksetprevused(blkinitfree(t, spfirstblk(sp), sp, n - SPAN_HDR_PADSZ),
                                   spfirstblk(sp))
        List(t) == SetSpan(t, sp, "free_list", spfirstblk(sp))
    IN  List(Block(Front(Prev(Map(s)))))

\* the state with a span of n bytes at sp in front of the list, its one
\* free block placed after the header
SpanAt(s, sp, n) ==
    LET Map(t) == [t EXCEPT !.maps = [a \in DOMAIN @ \cup {sp} |-> IF a = sp THEN n ELSE @[a]],
                            !.mem = Fill(@, sp, n, ZERO),
                            !.spans = [a \in DOMAIN @ \cup {sp} |->
                                         IF a = sp
                                         THEN [NoSpan EXCEPT !.size = n, !.next = s.base]
                                         ELSE @[a]]]
        Prev(t) == IF s.base # 0 THEN SetSpan(t, s.base, "prev", sp) ELSE t
        Front(t) == [t EXCEPT !.base = sp]
        Block(t) == blkinitfree(t, spfirstblk(sp), sp, n - SPAN_HDR_PADSZ)
        List(t) == SetSpan(t, sp, "free_list", spfirstblk(sp))
    IN  List(Block(Front(Prev(Map(s)))))

\* spalloc that counts the span before it knows that mmap succeeded
spalloc_counts_first(s, gross, slot) ==
    LET Called(t, spsz, sp) ==
            [t EXCEPT !.mmaps = Append(@, <<spsz, sp>>), !.span_count = @ + 1]
        Mapped(t, spsz, sp) ==
            IF sp = MAP_FAILED THEN [s |-> Called(t, spsz, sp), r |-> 0]
            ELSE [s |-> SpanAt(Called(t, spsz, sp), sp, Narrow(spsz)), r |-> sp]
    IN  Mapped(s, spansize(s, gross), mmap(s, spansize(s, gross), slot))

\* result: [s |-> state, r |-> the span, 0 when mmap failed]
spalloc(s, gross, slot) ==
    LET Called(t, spsz, sp) == [t EXCEPT !.mmaps = Append(@, <<spsz, sp>>)]
        Count(t) == [t EXCEPT !.span_count = @ + 1]
        Mapped(t, spsz, sp) ==
            IF sp = MAP_FAILED THEN [s |-> Called(t, spsz, sp), r |-> 0]
            ELSE [s |-> SpanAt(Count(Called(t, spsz, sp)), sp, Narrow(spsz)), r |-> sp]
    IN  Mapped(s, spansize(s, gross), mmap(s, spansize(s, gross), slot))

\* spsever that cuts the list after the span before sp
spsever_drops_tail(s, sp) ==
    LET nx == s.spans[sp].next
        pv == s.spans[sp].prev
        NoPrev(t) == IF nx # 0 THEN SetSpan(t, nx, "prev", 0) ELSE t
        Skip(t) == IF nx # 0 THEN SetSpan(t, nx, "prev", pv) ELSE t
        Clear(t) == SetSpan(SetSpan(t, sp, "prev", 0), sp, "next", 0)
    IN  IF sp = s.base
        THEN NoPrev(SetSpan([s EXCEPT !.base = nx], sp, "next", 0))
        ELSE Clear(Skip(SetSpan(Require(s, pv # 0, "spsever: sp->prev"), pv, "next", 0)))


\* spsever that leaves the prev pointer of the new head as it was
spsever_keeps_prev(s, sp) ==
    LET nx == s.spans[sp].next
        pv == s.spans[sp].prev
        Skip(t) == IF nx # 0 THEN SetSpan(t, nx, "prev", pv) ELSE t
        Clear(t) == SetSpan(SetSpan(t, sp, "prev", 0), sp, "next", 0)
    IN  IF sp = s.base
        THEN SetSpan([s EXCEPT !.base = nx], sp, "next", 0)
        ELSE Clear(Skip(SetSpan(Require(s, pv # 0, "spsever: sp->prev"), pv, "next", nx)))


spsever(s, sp) ==
    LET nx == s.spans[sp].next
        pv == s.spans[sp].prev
        NoPrev(t) == IF nx # 0 THEN SetSpan(t, nx, "prev", 0) ELSE t
        Skip(t) == IF nx # 0 THEN SetSpan(t, nx, "prev", pv) ELSE t
        Clear(t) == SetSpan(SetSpan(t, sp, "prev", 0), sp, "next", 0)
    IN  IF sp = s.base
        THEN NoPrev(SetSpan([s EXCEPT !.base = nx], sp, "next", 0))
        ELSE Clear(Skip(SetSpan(Require(s, pv # 0, "spsever: sp->prev"), pv, "next", nx)))

\* munmap(sp, len): the pages leave the address space
munmap(s, sp, len) ==
    Do(s, [s EXCEPT !.munmaps = Append(@, <<sp, len>>),
                    !.maps = [a \in DOMAIN @ \ {sp} |-> @[a]],
                    !.spans = [a \in DOMAIN @ \ {sp} |-> @[a]],
                    !.mem = Fill(@, sp, len, UNMAPPED)])

spfree(s, sp) ==
    LET Unmap(t) == munmap(t, sp, t.spans[sp].size)
    IN  Unmap(spsever([s EXCEPT !.span_count = @ - 1], sp))

(***************************************************************************)
(* Split, allocate, free, coalesce.                                        *)
(***************************************************************************)
\* blksplit that marks the block before the new block as in use
blksplit_marks_prev_used(s, bp, gross) ==
    LET sp == blkowner(s, bp)
        g == Narrow(gross)
        nb == bp + blksize(s, bp) - g
        bsz == blksize(s, bp) - g
        s1 == Require(s, bp # 0 /\ WLt(gross, U64(blksize(s, bp))), "blksplit: size > gross")
        s2 == Require(s1, nb % ALIGNMENT = 0, "blksplit: nb aligned")
        s3 == Require(s2, ptr_in_span(s, nb, sp), "blksplit: nb in span")
        Foot(t) == SetWord(t, blkfoot(t, bp), U64(bsz))
        Shrink(t) == Foot(blksetsize(t, bp, bsz))
        New(t) == blksetprevused(blkinitused(t, nb, sp, g), nb)
        Result(t) == [s |-> t, r |-> IF t.halted # "" THEN 0 ELSE nb]
    IN  Result(Then(Then(s3, Shrink), New))


\* blksplit that leaves the size of the free block as it was
blksplit_keeps_size(s, bp, gross) ==
    LET sp == blkowner(s, bp)
        g == Narrow(gross)
        nb == bp + blksize(s, bp) - g
        s1 == Require(s, bp # 0 /\ WLt(gross, U64(blksize(s, bp))), "blksplit: size > gross")
        s2 == Require(s1, nb % ALIGNMENT = 0, "blksplit: nb aligned")
        s3 == Require(s2, ptr_in_span(s, nb, sp), "blksplit: nb in span")
        New(t) == blksetprevfree(blkinitused(t, nb, sp, g), nb)
        Result(t) == [s |-> t, r |-> IF t.halted # "" THEN 0 ELSE nb]
    IN  Result(Then(s3, New))

\* blksplit that places the new block one word too high
blksplit_misaligned(s, bp, gross) ==
    LET sp == blkowner(s, bp)
        g == Narrow(gross)
        nb == bp + blksize(s, bp) - g + WORD
        bsz == blksize(s, bp) - g
        s1 == Require(s, bp # 0 /\ WLt(gross, U64(blksize(s, bp))), "blksplit: size > gross")
        s2 == Require(s1, nb % ALIGNMENT = 0, "blksplit: nb aligned")
        s3 == Require(s2, ptr_in_span(s, nb, sp), "blksplit: nb in span")
        Foot(t) == SetWord(t, blkfoot(t, bp), U64(bsz))
        Shrink(t) == Foot(blksetsize(t, bp, bsz))
        New(t) == blksetprevfree(blkinitused(t, nb, sp, g), nb)
        Result(t) == [s |-> t, r |-> IF t.halted # "" THEN 0 ELSE nb]
    IN  Result(Then(Then(s3, Shrink), New))


\* result: [s |-> state, r |-> the new block at the end of bp]
blksplit(s, bp, gross) ==
    LET sp == blkowner(s, bp)
        g == Narrow(gross)
        nb == bp + blksize(s, bp) - g
        bsz == blksize(s, bp) - g
        s1 == Require(s, bp # 0 /\ WLt(gross, U64(blksize(s, bp))), "blksplit: size > gross")
        s2 == Require(s1, nb % ALIGNMENT = 0, "blksplit: nb aligned")
        s3 == Require(s2, ptr_in_span(s, nb, sp), "blksplit: nb in span")
        Foot(t) == SetWord(t, blkfoot(t, bp), U64(bsz))
        Shrink(t) == Foot(blksetsize(t, bp, bsz))
        New(t) == blksetprevfree(blkinitused(t, nb, sp, g), nb)
        Result(t) == [s |-> t, r |-> IF t.halted # "" THEN 0 ELSE nb]
    IN  Result(Then(Then(s3, Shrink), New))

\* blkalloc that splits whenever any bytes remain
blkalloc_splits_slivers(s, gross, bp) ==
    LET whole == WSub(U64(blksize(s, bp)), gross) = ZERO
        Used(t) == blkinitused(t, bp, blkowner(t, bp), blksize(t, bp))
        Whole(t) == Then(blksever(t, bp), Used)
        Take(t) == IF t.halted # "" THEN [s |-> t, r |-> bp]
                   ELSE IF whole THEN [s |-> Whole(t), r |-> bp]
                   ELSE blksplit(t, bp, gross)
        Count(t, b) == SetSpan(t, blkowner(t, b), "blkcount",
                               t.spans[blkowner(t, b)].blkcount + 1)
        Adj(t, b) == Require(t, blknextadjOK(t, b), "blknextadj: aligned")
        Tell(t, b) == IF blknextadj(t, b) # 0 THEN blksetprevused(t, blknextadj(t, b)) ELSE t
    IN  ThenR(ThenR(ThenR(Take(Require(s, bp # 0 /\ blkisfree(s, bp), "blkalloc: free")),
                          Count), Adj), Tell)


\* blkalloc with the comparison against MIN_BLKSZ turned around
blkalloc_inverted(s, gross, bp) ==
    LET whole == WLt(U64(MIN_BLKSZ), WSub(U64(blksize(s, bp)), gross))
        Used(t) == blkinitused(t, bp, blkowner(t, bp), blksize(t, bp))
        Whole(t) == Then(blksever(t, bp), Used)
        Take(t) == IF t.halted # "" THEN [s |-> t, r |-> bp]
                   ELSE IF whole THEN [s |-> Whole(t), r |-> bp]
                   ELSE blksplit(t, bp, gross)
        Count(t, b) == SetSpan(t, blkowner(t, b), "blkcount",
                               t.spans[blkowner(t, b)].blkcount + 1)
        Adj(t, b) == Require(t, blknextadjOK(t, b), "blknextadj: aligned")
        Tell(t, b) == IF blknextadj(t, b) # 0 THEN blksetprevused(t, blknextadj(t, b)) ELSE t
    IN  ThenR(ThenR(ThenR(Take(Require(s, bp # 0 /\ blkisfree(s, bp), "blkalloc: free")),
                          Count), Adj), Tell)

\* result: [s |-> state, r |-> the block now in use]
blkalloc(s, gross, bp) ==
    LET whole == WLt(WSub(U64(blksize(s, bp)), gross), U64(MIN_BLKSZ))
        Used(t) == blkinitused(t, bp, blkowner(t, bp), blksize(t, bp))
        Whole(t) == Then(blksever(t, bp), Used)
        Take(t) == IF t.halted # "" THEN [s |-> t, r |-> bp]
                   ELSE IF whole THEN [s |-> Whole(t), r |-> bp]
                   ELSE blksplit(t, bp, gross)
        Count(t, b) == SetSpan(t, blkowner(t, b), "blkcount",
                               t.spans[blkowner(t, b)].blkcount + 1)
        Adj(t, b) == Require(t, blknextadjOK(t, b), "blknextadj: aligned")
        Tell(t, b) == IF blknextadj(t, b) # 0 THEN blksetprevused(t, blknextadj(t, b)) ELSE t
    IN  ThenR(ThenR(ThenR(Take(Require(s, bp # 0 /\ blkisfree(s, bp), "blkalloc: free")),
                          Count), Adj), Tell)

\* blkfree that leaves blkcount as it was
blkfree_keeps_count(s, bp) ==
    LET sp == blkowner(s, bp)
        Free_(t) == blkinitfree(t, bp, sp, blksize(t, bp))
        Link(t) == blkprepend(t, bp)
        Adj(t) == Require(t, blknextadjOK(t, bp), "blknextadj: aligned")
        Tell(t) == IF blknextadj(t, bp) # 0 THEN blksetprevfree(t, blknextadj(t, bp)) ELSE t
    IN  Then(Then(Then(Then(
            Require(s, s.spans[sp].blkcount > 0, "blkfree: blkcount > 0"),
            Free_), Link), Adj), Tell)


\* blkfree that leaves the PREV_IN_USE bit of the next block as it was
blkfree_silent(s, bp) ==
    LET sp == blkowner(s, bp)
        Count(t) == SetSpan(t, sp, "blkcount", t.spans[sp].blkcount - 1)
        Free_(t) == blkinitfree(t, bp, sp, blksize(t, bp))
        Link(t) == blkprepend(t, bp)
    IN  Then(Then(Then(
            Require(s, s.spans[sp].blkcount > 0, "blkfree: blkcount > 0"),
            Count), Free_), Link)


blkfree(s, bp) ==
    LET sp == blkowner(s, bp)
        Count(t) == SetSpan(t, sp, "blkcount", t.spans[sp].blkcount - 1)
        Free_(t) == blkinitfree(t, bp, sp, blksize(t, bp))
        Link(t) == blkprepend(t, bp)
        Adj(t) == Require(t, blknextadjOK(t, bp), "blknextadj: aligned")
        Tell(t) == IF blknextadj(t, bp) # 0 THEN blksetprevfree(t, blknextadj(t, bp)) ELSE t
    IN  Then(Then(Then(Then(Then(
            Require(s, s.spans[sp].blkcount > 0, "blkfree: blkcount > 0"),
            Count), Free_), Link), Adj), Tell)

\* blkcoalesce that leaves bq on the free list
blkcoalesce_keeps_link(s, bp, bq) ==
    LET Adj(t) == Require(t, blknextadjOK(t, bp), "blknextadj: aligned")
        Next_(t) == Require(t, blknextadj(t, bp) = bq, "blkcoalesce: adjacent")
        Free_(t) == Require(t, blkisfree(t, bp) /\ blkisfree(t, bq), "blkcoalesce: both free")
        Grow(t) == blksetsize(t, bp, blksize(t, bp) + blksize(t, bq))
        Foot(t) == SetWord(t, blkfoot(t, bp), U64(blksize(t, bp)))
    IN  Then(Then(Then(Then(Then(
            Require(s, bp # 0 /\ bq # 0, "blkcoalesce: bp && bq"),
            Adj), Next_), Free_), Grow), Foot)


\* extend bp over bq, the free block physically after it
blkcoalesce(s, bp, bq) ==
    LET Adj(t) == Require(t, blknextadjOK(t, bp), "blknextadj: aligned")
        Next_(t) == Require(t, blknextadj(t, bp) = bq, "blkcoalesce: adjacent")
        Free_(t) == Require(t, blkisfree(t, bp) /\ blkisfree(t, bq), "blkcoalesce: both free")
        Sever(t) == blksever(t, bq)
        Grow(t) == blksetsize(t, bp, blksize(t, bp) + blksize(t, bq))
        Foot(t) == SetWord(t, blkfoot(t, bp), U64(blksize(t, bp)))
    IN  Then(Then(Then(Then(Then(Then(
            Require(s, bp # 0 /\ bq # 0, "blkcoalesce: bp && bq"),
            Adj), Next_), Free_), Sever), Grow), Foot)

\* coalesce that merges with the next block only
coalesce_forward_only(s, bp) ==
    LET Adj(t) == Require(t, blknextadjOK(t, bp), "blknextadj: aligned")
        Fwd(t) == IF blknextadj(t, bp) # 0 /\ blkisfree(t, blknextadj(t, bp))
                  THEN blkcoalesce(t, bp, blknextadj(t, bp)) ELSE t
        Back(t) == [s |-> t, r |-> bp]
    IN  Back(Then(Then(Require(s, bp # 0 /\ blkisfree(s, bp), "coalesce: free"),
                       Adj), Fwd))

\* result: [s |-> state, r |-> the block that now covers bp]
coalesce(s, bp) ==
    LET Adj(t) == Require(t, blknextadjOK(t, bp), "blknextadj: aligned")
        Fwd(t) == IF blknextadj(t, bp) # 0 /\ blkisfree(t, blknextadj(t, bp))
                  THEN blkcoalesce(t, bp, blknextadj(t, bp)) ELSE t
        Prev(t) == IF blkisprevfree(t, bp)
                   THEN Require(t, blkprevadjOK(t, bp), "blkprevadj: aligned") ELSE t
        Back(t) == IF t.halted = "" /\ blkisprevfree(t, bp) /\ blkprevadj(t, bp) # 0
                   THEN [s |-> blkcoalesce(t, blkprevadj(t, bp), bp), r |-> blkprevadj(t, bp)]
                   ELSE [s |-> t, r |-> bp]
    IN  Back(Then(Then(Then(Require(s, bp # 0 /\ blkisfree(s, bp), "coalesce: free"),
                            Adj), Fwd), Prev))

(***************************************************************************)
(* The public entries.  slot is the region the page provider offers should *)
(* the call reach mmap.                                                    *)
(***************************************************************************)
\* result: [s |-> state, r |-> the payload, 0 for no memory]
m_malloc(s, size, slot) ==
    LET gross == blksizerequest(size)
        first == IF s.pagesize = 0 THEN [s EXCEPT !.pagesize = PageSize] ELSE s
        Fresh(x) == [s |-> x.s, r |-> IF x.r = 0 THEN 0 ELSE x.s.spans[x.r].free_list]
        Find(t) == IF t.halted # "" THEN [s |-> t, r |-> 0]
                   ELSE IF blkfind(t, gross) # 0 THEN [s |-> t, r |-> blkfind(t, gross)]
                   ELSE Fresh(spalloc(t, gross, slot))
        Payload(x) == [s |-> x.s, r |-> IF x.s.halted # "" THEN 0 ELSE blkpayload(x.r)]
        Serve(x) == IF x.s.halted # "" \/ x.r = 0 THEN [s |-> x.s, r |-> 0]
                    ELSE Payload(blkalloc(x.s, gross, x.r))
    IN  IF size = ZERO THEN [s |-> s, r |-> 0]
        ELSE Serve(Find(Require(first, WLe(U64(MIN_BLKSZ), gross),
                                "m_malloc: gross >= MIN_BLKSZ")))

\* m_free that leaves the freed block as it is, merging it with no neighbour
m_free_no_coalesce(s, p) ==
    LET bp == plblk(p)
        Poison(t) ==
            IF t.halted # "" THEN t
            ELSE [t EXCEPT !.mem = Fill(@, blkpayload(bp), plsize(t, bp) - WORD,
                                        POISON_WORD)]
        Rest(t) == IF t.spans[blkowner(t, bp)].blkcount = 0 /\ t.span_count > SPAN_CACHE
                   THEN spfree(t, blkowner(t, bp))
                   ELSE Poison(t)
        Free_(t) == Then(blkfree(t, bp), Rest)
    IN  IF p = 0 THEN s
        ELSE Then(Require(s, ~blkisfree(s, bp), "m_free: in use"), Free_)


\* m_free that poisons the whole payload, footer included
m_free_poisons_footer(s, p) ==
    LET bp == plblk(p)
        Poison(x) ==
            IF x.s.halted # "" THEN x.s
            ELSE [x.s EXCEPT !.mem = Fill(@, blkpayload(x.r), plsize(x.s, x.r), POISON_WORD)]
        Rest(t) == IF t.spans[blkowner(t, bp)].blkcount = 0 /\ t.span_count > SPAN_CACHE
                   THEN spfree(t, blkowner(t, bp))
                   ELSE Poison(coalesce(t, bp))
        Free_(t) == Then(blkfree(t, bp), Rest)
    IN  IF p = 0 THEN s
        ELSE Then(Require(s, ~blkisfree(s, bp), "m_free: in use"), Free_)


\* m_free that keeps no span cached
m_free_no_cache(s, p) ==
    LET bp == plblk(p)
        Poison(x) ==
            IF x.s.halted # "" THEN x.s
            ELSE [x.s EXCEPT !.mem = Fill(@, blkpayload(x.r), plsize(x.s, x.r) - WORD,
                                          POISON_WORD)]
        Rest(t) == IF t.spans[blkowner(t, bp)].blkcount = 0 /\ t.span_count >= SPAN_CACHE
                   THEN spfree(t, blkowner(t, bp))
                   ELSE Poison(coalesce(t, bp))
        Free_(t) == Then(blkfree(t, bp), Rest)
    IN  IF p = 0 THEN s
        ELSE Then(Require(s, ~blkisfree(s, bp), "m_free: in use"), Free_)

\* m_free that returns at once when the block is free already
m_free_ignores_freed(s, p) ==
    LET bp == plblk(p)
        Poison(x) ==
            IF x.s.halted # "" THEN x.s
            ELSE [x.s EXCEPT !.mem = Fill(@, blkpayload(x.r), plsize(x.s, x.r) - WORD,
                                          POISON_WORD)]
        Rest(t) == IF t.spans[blkowner(t, bp)].blkcount = 0 /\ t.span_count > SPAN_CACHE
                   THEN spfree(t, blkowner(t, bp))
                   ELSE Poison(coalesce(t, bp))
        Free_(t) == Then(blkfree(t, bp), Rest)
    IN  IF p = 0 \/ blkisfree(s, bp) THEN s
        ELSE Free_(s)

\* m_free that unmaps every span that holds no block, whatever the span count
m_free_counts_blocks_only(s, p) ==
    LET bp == plblk(p)
        Poison(x) ==
            IF x.s.halted # "" THEN x.s
            ELSE [x.s EXCEPT !.mem = Fill(@, blkpayload(x.r), plsize(x.s, x.r) - WORD,
                                          POISON_WORD)]
        Rest(t) == IF t.spans[blkowner(t, bp)].blkcount = 0
                   THEN spfree(t, blkowner(t, bp))
                   ELSE Poison(coalesce(t, bp))
        Free_(t) == Then(blkfree(t, bp), Rest)
    IN  IF p = 0 THEN s
        ELSE Then(Require(s, ~blkisfree(s, bp), "m_free: in use"), Free_)

\* m_free that unmaps a span while one of its blocks is still in use
m_free_unmaps_last_but_one(s, p) ==
    LET bp == plblk(p)
        Poison(x) ==
            IF x.s.halted # "" THEN x.s
            ELSE [x.s EXCEPT !.mem = Fill(@, blkpayload(x.r), plsize(x.s, x.r) - WORD,
                                          POISON_WORD)]
        Rest(t) == IF t.spans[blkowner(t, bp)].blkcount <= 1 /\ t.span_count > SPAN_CACHE
                   THEN spfree(t, blkowner(t, bp))
                   ELSE Poison(coalesce(t, bp))
        Free_(t) == Then(blkfree(t, bp), Rest)
    IN  IF p = 0 THEN s
        ELSE Then(Require(s, ~blkisfree(s, bp), "m_free: in use"), Free_)


\* m_free that keeps two spans mapped before it gives one back
m_free_caches_two(s, p) ==
    LET bp == plblk(p)
        Poison(x) ==
            IF x.s.halted # "" THEN x.s
            ELSE [x.s EXCEPT !.mem = Fill(@, blkpayload(x.r), plsize(x.s, x.r) - WORD,
                                          POISON_WORD)]
        Rest(t) == IF t.spans[blkowner(t, bp)].blkcount = 0 /\ t.span_count > SPAN_CACHE + 1
                   THEN spfree(t, blkowner(t, bp))
                   ELSE Poison(coalesce(t, bp))
        Free_(t) == Then(blkfree(t, bp), Rest)
    IN  IF p = 0 THEN s
        ELSE Then(Require(s, ~blkisfree(s, bp), "m_free: in use"), Free_)


\* m_free that poisons the first word of the payload after its span is unmapped
m_free_poisons_after_unmap(s, p) ==
    LET bp == plblk(p)
        Poison(x) ==
            IF x.s.halted # "" THEN x.s
            ELSE [x.s EXCEPT !.mem = Fill(@, blkpayload(x.r), plsize(x.s, x.r) - WORD,
                                          POISON_WORD)]
        Rest(t) == IF t.spans[blkowner(t, bp)].blkcount = 0 /\ t.span_count > SPAN_CACHE
                   THEN [spfree(t, blkowner(t, bp)) EXCEPT !.mem = Fill(@, p, WORD, POISON_WORD)]
                   ELSE Poison(coalesce(t, bp))
        Free_(t) == Then(blkfree(t, bp), Rest)
    IN  IF p = 0 THEN s
        ELSE Then(Require(s, ~blkisfree(s, bp), "m_free: in use"), Free_)


m_free(s, p) ==
    LET bp == plblk(p)
        Poison(x) ==
            IF x.s.halted # "" THEN x.s
            ELSE [x.s EXCEPT !.mem = Fill(@, blkpayload(x.r), plsize(x.s, x.r) - WORD,
                                          POISON_WORD)]
        Rest(t) == IF t.spans[blkowner(t, bp)].blkcount = 0 /\ t.span_count > SPAN_CACHE
                   THEN spfree(t, blkowner(t, bp))
                   ELSE Poison(coalesce(t, bp))
        Free_(t) == Then(blkfree(t, bp), Rest)
    IN  IF p = 0 THEN s
        ELSE Then(Require(s, ~blkisfree(s, bp), "m_free: in use"), Free_)

\* m_calloc that zeroes the bytes asked for, not the payload
m_calloc_requested_bytes(s, n, sz, slot) ==
    LET asked == Narrow(WMul(sz, n))
        Zero(x) == IF x.s.halted # "" \/ x.r = 0 THEN [s |-> x.s, r |-> 0]
                   ELSE [s |-> [x.s EXCEPT !.mem = Fill(@, x.r, (asked \div WORD) * WORD, ZERO)],
                         r |-> x.r]
    IN  Zero(m_malloc(s, WMul(sz, n), slot))

\* result: [s |-> state, r |-> the zeroed payload, 0 for no memory]
m_calloc(s, n, sz, slot) ==
    LET Zero(x) == IF x.s.halted # "" \/ x.r = 0 THEN [s |-> x.s, r |-> 0]
                   ELSE [s |-> [x.s EXCEPT !.mem = Fill(@, x.r, plsize(x.s, plblk(x.r)), ZERO)],
                         r |-> x.r]
    IN  Zero(m_malloc(s, WMul(sz, n), slot))

\* realloc_truncate that splits off any remainder with room for a header
realloc_truncate_header_only(s, bp, size) ==
    LET gross == blksizerequest(size)
        g == Narrow(gross)
        nb == bp + g
        nsz == blksize(s, bp) - g
        keep == \/ WLt(WSub(U64(blksize(s, bp)), gross), U64(BLOCK_HDR_PADSZ))
                \/ WLt(gross, U64(MIN_BLKSZ))
        s1 == Require(s, bp # 0 /\ ~blkisfree(s, bp), "realloc_truncate: in use")
        s2 == Require(s1, WLe(U64(MIN_BLKSZ), gross) /\ WLe(gross, U64(blksize(s, bp))),
                      "realloc_truncate: MIN_BLKSZ <= gross <= size")
        Cut(t) == Require(blksetsize(t, bp, g), nb % ALIGNMENT = 0, "realloc_truncate: nb aligned")
        New(t) == blkinitfree(t, nb, blkowner(t, bp), nsz)
        Link(t) == blkprepend(t, nb)
        Used(t) == blksetprevused(t, nb)
        Adj(t) == Require(t, blknextadjOK(t, nb), "blknextadj: aligned")
        Merge(t) == IF blknextadj(t, nb) # 0
                    THEN coalesce(blksetprevfree(t, blknextadj(t, nb)), nb).s ELSE t
        Split(t) == IF keep THEN t
                    ELSE Then(Then(Then(Then(Then(Cut(t), New), Link), Used), Adj), Merge)
        Result(t) == [s |-> t, r |-> IF t.halted # "" THEN 0 ELSE blkpayload(bp)]
    IN  Result(Then(s2, Split))

\* realloc_truncate that does not coalesce the block it splits off
realloc_truncate_no_merge(s, bp, size) ==
    LET gross == blksizerequest(size)
        g == Narrow(gross)
        nb == bp + g
        nsz == blksize(s, bp) - g
        keep == \/ WLt(WSub(U64(blksize(s, bp)), gross), U64(MIN_BLKSZ))
                \/ WLt(gross, U64(MIN_BLKSZ))
        s1 == Require(s, bp # 0 /\ ~blkisfree(s, bp), "realloc_truncate: in use")
        s2 == Require(s1, WLe(U64(MIN_BLKSZ), gross) /\ WLe(gross, U64(blksize(s, bp))),
                      "realloc_truncate: MIN_BLKSZ <= gross <= size")
        Cut(t) == Require(blksetsize(t, bp, g), nb % ALIGNMENT = 0, "realloc_truncate: nb aligned")
        New(t) == blkinitfree(t, nb, blkowner(t, bp), nsz)
        Link(t) == blkprepend(t, nb)
        Used(t) == blksetprevused(t, nb)
        Adj(t) == Require(t, blknextadjOK(t, nb), "blknextadj: aligned")
        Merge(t) == IF blknextadj(t, nb) # 0
                    THEN blksetprevfree(t, blknextadj(t, nb)) ELSE t
        Split(t) == IF keep THEN t
                    ELSE Then(Then(Then(Then(Then(Cut(t), New), Link), Used), Adj), Merge)
        Result(t) == [s |-> t, r |-> IF t.halted # "" THEN 0 ELSE blkpayload(bp)]
    IN  Result(Then(s2, Split))

\* realloc_truncate that shrinks the header also when it splits nothing off
realloc_truncate_shrinks_anyway(s, bp, size) ==
    LET gross == blksizerequest(size)
        g == Narrow(gross)
        nb == bp + g
        nsz == blksize(s, bp) - g
        keep == \/ WLt(WSub(U64(blksize(s, bp)), gross), U64(MIN_BLKSZ))
                \/ WLt(gross, U64(MIN_BLKSZ))
        s1 == Require(s, bp # 0 /\ ~blkisfree(s, bp), "realloc_truncate: in use")
        s2 == Require(s1, WLe(U64(MIN_BLKSZ), gross) /\ WLe(gross, U64(blksize(s, bp))),
                      "realloc_truncate: MIN_BLKSZ <= gross <= size")
        Cut(t) == Require(blksetsize(t, bp, g), nb % ALIGNMENT = 0, "realloc_truncate: nb aligned")
        New(t) == blkinitfree(t, nb, blkowner(t, bp), nsz)
        Link(t) == blkprepend(t, nb)
        Used(t) == blksetprevused(t, nb)
        Adj(t) == Require(t, blknextadjOK(t, nb), "blknextadj: aligned")
        Merge(t) == IF blknextadj(t, nb) # 0
                    THEN coalesce(blksetprevfree(t, blknextadj(t, nb)), nb).s ELSE t
        Split(t) == IF keep THEN blksetsize(t, bp, g)
                    ELSE Then(Then(Then(Then(Then(Cut(t), New), Link), Used), Adj), Merge)
        Result(t) == [s |-> t, r |-> IF t.halted # "" THEN 0 ELSE blkpayload(bp)]
    IN  Result(Then(s2, Split))

\* result: [s |-> state, r |-> the payload]
realloc_truncate(s, bp, size) ==
    LET gross == blksizerequest(size)
        g == Narrow(gross)
        nb == bp + g
        nsz == blksize(s, bp) - g
        keep == \/ WLt(WSub(U64(blksize(s, bp)), gross), U64(MIN_BLKSZ))
                \/ WLt(gross, U64(MIN_BLKSZ))
        s1 == Require(s, bp # 0 /\ ~blkisfree(s, bp), "realloc_truncate: in use")
        s2 == Require(s1, WLe(U64(MIN_BLKSZ), gross) /\ WLe(gross, U64(blksize(s, bp))),
                      "realloc_truncate: MIN_BLKSZ <= gross <= size")
        Cut(t) == Require(blksetsize(t, bp, g), nb % ALIGNMENT = 0, "realloc_truncate: nb aligned")
        New(t) == blkinitfree(t, nb, blkowner(t, bp), nsz)
        Link(t) == blkprepend(t, nb)
        Used(t) == blksetprevused(t, nb)
        Adj(t) == Require(t, blknextadjOK(t, nb), "blknextadj: aligned")
        Merge(t) == IF blknextadj(t, nb) # 0
                    THEN coalesce(blksetprevfree(t, blknextadj(t, nb)), nb).s ELSE t
        Split(t) == IF keep THEN t
                    ELSE Then(Then(Then(Then(Then(Cut(t), New), Link), Used), Adj), Merge)
        Result(t) == [s |-> t, r |-> IF t.halted # "" THEN 0 ELSE blkpayload(bp)]
    IN  Result(Then(s2, Split))

\* realloc_extend that gives p back before it looks at the result of m_malloc
realloc_extend_frees_first(s, bp, size, slot) ==
    LET gross == blksizerequest(size)
        p == blkpayload(bp)
        bq == blknextadj(s, bp)
        nextfree == bq # 0 /\ blkisfree(s, bq)
        diff == IF nextfree THEN WSub(gross, U64(blksize(s, bp))) ELSE ZERO
        inplace == nextfree /\ WLe(diff, U64(blksize(s, bq)))
        leftover == blksize(s, bp) + blksize(s, bq) - Narrow(gross)
        nb == bp + Narrow(gross)
        s1 == Require(s, bp # 0 /\ ~blkisfree(s, bp), "realloc_extend: in use")
        s2 == Require(s1, WLt(U64(blksize(s, bp)), gross), "realloc_extend: size < gross")
        s3 == Require(s2, blknextadjOK(s, bp), "blknextadj: aligned")
        \* take all of bq
        Grow(t) == blksetsize(t, bp, blksize(t, bp) + blksize(t, bq))
        AdjQ(t) == Require(t, blknextadjOK(t, bq), "blknextadj: aligned")
        Tell(t) == IF blknextadj(t, bq) # 0 THEN blksetprevused(t, blknextadj(t, bq)) ELSE t
        All(t) == Then(Then(Then(blksever(t, bq), Grow), AdjQ), Tell)
        \* extend bp and split bq
        Sever(t) == blksever(t, bq)
        New(t) == blkinitfree(t, nb, blkowner(t, bp), leftover)
        Link(t) == blkprepend(t, nb)
        Used(t) == blksetprevused(t, nb)
        Part(t) == Then(Then(Then(Then(blksetsize(t, bp, Narrow(gross)), Sever), New), Link), Used)
        Extend(t) == IF leftover < MIN_BLKSZ THEN All(t) ELSE Part(t)
        InPlace(t) == Then(Require(t, leftover % ALIGNMENT = 0, "realloc_extend: leftover aligned"),
                           Extend)
        \* move
        Carry(x) == [x.s EXCEPT !.mem = Copy(@, x.r, p, plsize(x.s, bp))]
        Moved(x) == IF x.s.halted # "" THEN [s |-> x.s, r |-> 0]
                    ELSE IF x.r = 0 THEN [s |-> m_free(x.s, p), r |-> 0]
                    ELSE [s |-> m_free(Carry(x), p), r |-> x.r]
        Result(t) == [s |-> t, r |-> IF t.halted # "" THEN 0 ELSE p]
    IN  IF s3.halted # "" THEN [s |-> s3, r |-> 0]
        ELSE IF inplace THEN Result(InPlace(s3))
        ELSE Moved(m_malloc(s3, size, slot))

\* realloc_extend that extends in place only over a neighbour as large as the
\* whole request
realloc_extend_needs_whole_gross(s, bp, size, slot) ==
    LET gross == blksizerequest(size)
        p == blkpayload(bp)
        bq == blknextadj(s, bp)
        nextfree == bq # 0 /\ blkisfree(s, bq)
        diff == IF nextfree THEN WSub(gross, U64(blksize(s, bp))) ELSE ZERO
        inplace == nextfree /\ WLe(gross, U64(blksize(s, bq)))
        leftover == blksize(s, bp) + blksize(s, bq) - Narrow(gross)
        nb == bp + Narrow(gross)
        s1 == Require(s, bp # 0 /\ ~blkisfree(s, bp), "realloc_extend: in use")
        s2 == Require(s1, WLt(U64(blksize(s, bp)), gross), "realloc_extend: size < gross")
        s3 == Require(s2, blknextadjOK(s, bp), "blknextadj: aligned")
        \* take all of bq
        Grow(t) == blksetsize(t, bp, blksize(t, bp) + blksize(t, bq))
        AdjQ(t) == Require(t, blknextadjOK(t, bq), "blknextadj: aligned")
        Tell(t) == IF blknextadj(t, bq) # 0 THEN blksetprevused(t, blknextadj(t, bq)) ELSE t
        All(t) == Then(Then(Then(blksever(t, bq), Grow), AdjQ), Tell)
        \* extend bp and split bq
        Sever(t) == blksever(t, bq)
        New(t) == blkinitfree(t, nb, blkowner(t, bp), leftover)
        Link(t) == blkprepend(t, nb)
        Used(t) == blksetprevused(t, nb)
        Part(t) == Then(Then(Then(Then(blksetsize(t, bp, Narrow(gross)), Sever), New), Link), Used)
        Extend(t) == IF leftover < MIN_BLKSZ THEN All(t) ELSE Part(t)
        InPlace(t) == Then(Require(t, leftover % ALIGNMENT = 0, "realloc_extend: leftover aligned"),
                           Extend)
        \* move
        Carry(x) == [x.s EXCEPT !.mem = Copy(@, x.r, p, plsize(x.s, bp))]
        Moved(x) == IF x.s.halted # "" \/ x.r = 0 THEN [s |-> x.s, r |-> 0]
                    ELSE [s |-> m_free(Carry(x), p), r |-> x.r]
        Result(t) == [s |-> t, r |-> IF t.halted # "" THEN 0 ELSE p]
    IN  IF s3.halted # "" THEN [s |-> s3, r |-> 0]
        ELSE IF inplace THEN Result(InPlace(s3))
        ELSE Moved(m_malloc(s3, size, slot))

\* realloc_extend that copies the payload after it has freed the old block
realloc_extend_copies_after_free(s, bp, size, slot) ==
    LET gross == blksizerequest(size)
        p == blkpayload(bp)
        bq == blknextadj(s, bp)
        nextfree == bq # 0 /\ blkisfree(s, bq)
        diff == IF nextfree THEN WSub(gross, U64(blksize(s, bp))) ELSE ZERO
        inplace == nextfree /\ WLe(diff, U64(blksize(s, bq)))
        leftover == blksize(s, bp) + blksize(s, bq) - Narrow(gross)
        nb == bp + Narrow(gross)
        s1 == Require(s, bp # 0 /\ ~blkisfree(s, bp), "realloc_extend: in use")
        s2 == Require(s1, WLt(U64(blksize(s, bp)), gross), "realloc_extend: size < gross")
        s3 == Require(s2, blknextadjOK(s, bp), "blknextadj: aligned")
        Grow(t) == blksetsize(t, bp, blksize(t, bp) + blksize(t, bq))
        AdjQ(t) == Require(t, blknextadjOK(t, bq), "blknextadj: aligned")
        Tell(t) == IF blknextadj(t, bq) # 0 THEN blksetprevused(t, blknextadj(t, bq)) ELSE t
        All(t) == Then(Then(Then(blksever(t, bq), Grow), AdjQ), Tell)
        Sever(t) == blksever(t, bq)
        New(t) == blkinitfree(t, nb, blkowner(t, bp), leftover)
        Link(t) == blkprepend(t, nb)
        Used(t) == blksetprevused(t, nb)
        Part(t) == Then(Then(Then(Then(blksetsize(t, bp, Narrow(gross)), Sever), New), Link), Used)
        Extend(t) == IF leftover < MIN_BLKSZ THEN All(t) ELSE Part(t)
        InPlace(t) == Then(Require(t, leftover % ALIGNMENT = 0, "realloc_extend: leftover aligned"),
                           Extend)
        Late(t, q, n) == Do(t, [t EXCEPT !.mem = Copy(@, q, p, n)])
        Moved(x) == IF x.s.halted # "" \/ x.r = 0 THEN [s |-> x.s, r |-> 0]
                    ELSE [s |-> Late(m_free(x.s, p), x.r, plsize(x.s, bp)), r |-> x.r]
        Result(t) == [s |-> t, r |-> IF t.halted # "" THEN 0 ELSE p]
    IN  IF s3.halted # "" THEN [s |-> s3, r |-> 0]
        ELSE IF inplace THEN Result(InPlace(s3))
        ELSE Moved(m_malloc(s3, size, slot))

\* realloc_extend that does not free the block it moved the payload out of
realloc_extend_leaks_old(s, bp, size, slot) ==
    LET gross == blksizerequest(size)
        p == blkpayload(bp)
        bq == blknextadj(s, bp)
        nextfree == bq # 0 /\ blkisfree(s, bq)
        diff == IF nextfree THEN WSub(gross, U64(blksize(s, bp))) ELSE ZERO
        inplace == nextfree /\ WLe(diff, U64(blksize(s, bq)))
        leftover == blksize(s, bp) + blksize(s, bq) - Narrow(gross)
        nb == bp + Narrow(gross)
        s1 == Require(s, bp # 0 /\ ~blkisfree(s, bp), "realloc_extend: in use")
        s2 == Require(s1, WLt(U64(blksize(s, bp)), gross), "realloc_extend: size < gross")
        s3 == Require(s2, blknextadjOK(s, bp), "blknextadj: aligned")
        \* take all of bq
        Grow(t) == blksetsize(t, bp, blksize(t, bp) + blksize(t, bq))
        AdjQ(t) == Require(t, blknextadjOK(t, bq), "blknextadj: aligned")
        Tell(t) == IF blknextadj(t, bq) # 0 THEN blksetprevused(t, blknextadj(t, bq)) ELSE t
        All(t) == Then(Then(Then(blksever(t, bq), Grow), AdjQ), Tell)
        \* extend bp and split bq
        Sever(t) == blksever(t, bq)
        New(t) == blkinitfree(t, nb, blkowner(t, bp), leftover)
        Link(t) == blkprepend(t, nb)
        Used(t) == blksetprevused(t, nb)
        Part(t) == Then(Then(Then(Then(blksetsize(t, bp, Narrow(gross)), Sever), New), Link), Used)
        Extend(t) == IF leftover < MIN_BLKSZ THEN All(t) ELSE Part(t)
        InPlace(t) == Then(Require(t, leftover % ALIGNMENT = 0, "realloc_extend: leftover aligned"),
                           Extend)
        \* move
        Carry(x) == [x.s EXCEPT !.mem = Copy(@, x.r, p, plsize(x.s, bp))]
        Moved(x) == IF x.s.halted # "" \/ x.r = 0 THEN [s |-> x.s, r |-> 0]
                    ELSE [s |-> Carry(x), r |-> x.r]
        Result(t) == [s |-> t, r |-> IF t.halted # "" THEN 0 ELSE p]
    IN  IF s3.halted # "" THEN [s |-> s3, r |-> 0]
        ELSE IF inplace THEN Result(InPlace(s3))
        ELSE Moved(m_malloc(s3, size, slot))

\* realloc_extend that takes all of bq and leaves the block after it alone
realloc_extend_forgets_next_bit(s, bp, size, slot) ==
    LET gross == blksizerequest(size)
        p == blkpayload(bp)
        bq == blknextadj(s, bp)
        nextfree == bq # 0 /\ blkisfree(s, bq)
        diff == IF nextfree THEN WSub(gross, U64(blksize(s, bp))) ELSE ZERO
        inplace == nextfree /\ WLe(diff, U64(blksize(s, bq)))
        leftover == blksize(s, bp) + blksize(s, bq) - Narrow(gross)
        nb == bp + Narrow(gross)
        s1 == Require(s, bp # 0 /\ ~blkisfree(s, bp), "realloc_extend: in use")
        s2 == Require(s1, WLt(U64(blksize(s, bp)), gross), "realloc_extend: size < gross")
        s3 == Require(s2, blknextadjOK(s, bp), "blknextadj: aligned")
        \* take all of bq
        Grow(t) == blksetsize(t, bp, blksize(t, bp) + blksize(t, bq))
        AdjQ(t) == Require(t, blknextadjOK(t, bq), "blknextadj: aligned")
        Tell(t) == t
        All(t) == Then(Then(Then(blksever(t, bq), Grow), AdjQ), Tell)
        \* extend bp and split bq
        Sever(t) == blksever(t, bq)
        New(t) == blkinitfree(t, nb, blkowner(t, bp), leftover)
        Link(t) == blkprepend(t, nb)
        Used(t) == blksetprevused(t, nb)
        Part(t) == Then(Then(Then(Then(blksetsize(t, bp, Narrow(gross)), Sever), New), Link), Used)
        Extend(t) == IF leftover < MIN_BLKSZ THEN All(t) ELSE Part(t)
        InPlace(t) == Then(Require(t, leftover % ALIGNMENT = 0, "realloc_extend: leftover aligned"),
                           Extend)
        \* move
        Carry(x) == [x.s EXCEPT !.mem = Copy(@, x.r, p, plsize(x.s, bp))]
        Moved(x) == IF x.s.halted # "" \/ x.r = 0 THEN [s |-> x.s, r |-> 0]
                    ELSE [s |-> m_free(Carry(x), p), r |-> x.r]
        Result(t) == [s |-> t, r |-> IF t.halted # "" THEN 0 ELSE p]
    IN  IF s3.halted # "" THEN [s |-> s3, r |-> 0]
        ELSE IF inplace THEN Result(InPlace(s3))
        ELSE Moved(m_malloc(s3, size, slot))


\* result: [s |-> state, r |-> the payload, 0 for no memory]
realloc_extend(s, bp, size, slot) ==
    LET gross == blksizerequest(size)
        p == blkpayload(bp)
        bq == blknextadj(s, bp)
        nextfree == bq # 0 /\ blkisfree(s, bq)
        diff == IF nextfree THEN WSub(gross, U64(blksize(s, bp))) ELSE ZERO
        inplace == nextfree /\ WLe(diff, U64(blksize(s, bq)))
        leftover == blksize(s, bp) + blksize(s, bq) - Narrow(gross)
        nb == bp + Narrow(gross)
        s1 == Require(s, bp # 0 /\ ~blkisfree(s, bp), "realloc_extend: in use")
        s2 == Require(s1, WLt(U64(blksize(s, bp)), gross), "realloc_extend: size < gross")
        s3 == Require(s2, blknextadjOK(s, bp), "blknextadj: aligned")
        \* take all of bq
        Grow(t) == blksetsize(t, bp, blksize(t, bp) + blksize(t, bq))
        AdjQ(t) == Require(t, blknextadjOK(t, bq), "blknextadj: aligned")
        Tell(t) == IF blknextadj(t, bq) # 0 THEN blksetprevused(t, blknextadj(t, bq)) ELSE t
        All(t) == Then(Then(Then(blksever(t, bq), Grow), AdjQ), Tell)
        \* extend bp and split bq
        Sever(t) == blksever(t, bq)
        New(t) == blkinitfree(t, nb, blkowner(t, bp), leftover)
        Link(t) == blkprepend(t, nb)
        Used(t) == blksetprevused(t, nb)
        Part(t) == Then(Then(Then(Then(blksetsize(t, bp, Narrow(gross)), Sever), New), Link), Used)
        Extend(t) == IF leftover < MIN_BLKSZ THEN All(t) ELSE Part(t)
        InPlace(t) == Then(Require(t, leftover % ALIGNMENT = 0, "realloc_extend: leftover aligned"),
                           Extend)
        \* move
        Carry(x) == [x.s EXCEPT !.mem = Copy(@, x.r, p, plsize(x.s, bp))]
        Moved(x) == IF x.s.halted # "" \/ x.r = 0 THEN [s |-> x.s, r |-> 0]
                    ELSE [s |-> m_free(Carry(x), p), r |-> x.r]
        Result(t) == [s |-> t, r |-> IF t.halted # "" THEN 0 ELSE p]
    IN  IF s3.halted # "" THEN [s |-> s3, r |-> 0]
        ELSE IF inplace THEN Result(InPlace(s3))
        ELSE Moved(m_malloc(s3, size, slot))

\* m_realloc that hands the gross size to m_malloc when p is null
m_realloc_null_passes_gross(s, p, size, slot) ==
    LET bp == plblk(p)
        gross == blksizerequest(size)
        cur == U64(blksize(s, bp))
    IN  IF p = 0 THEN m_malloc(s, gross, slot)
        ELSE IF gross = cur THEN [s |-> s, r |-> p]
        ELSE IF size = ZERO \/ WLt(gross, cur) THEN realloc_truncate(s, bp, size)
        ELSE realloc_extend(s, bp, size, slot)

\* m_realloc that compares the request with the payload size of the block
m_realloc_compares_payload(s, p, size, slot) ==
    LET bp == plblk(p)
        gross == blksizerequest(size)
        cur == U64(blksize(s, bp))
    IN  IF p = 0 THEN m_malloc(s, size, slot)
        ELSE IF gross = U64(plsize(s, bp)) THEN [s |-> s, r |-> p]
        ELSE IF size = ZERO \/ WLt(gross, cur) THEN realloc_truncate(s, bp, size)
        ELSE realloc_extend(s, bp, size, slot)

\* result: [s |-> state, r |-> the payload, 0 for no memory]
m_realloc(s, p, size, slot) ==
    LET bp == plblk(p)
        gross == blksizerequest(size)
        cur == U64(blksize(s, bp))
    IN  IF p = 0 THEN m_malloc(s, size, slot)
        ELSE IF gross = cur THEN [s |-> s, r |-> p]
        ELSE IF size = ZERO \/ WLt(gross, cur) THEN realloc_truncate(s, bp, size)
        ELSE realloc_extend(s, bp, size, slot)

(***************************************************************************)
(* The state machine: a single-threaded caller issuing public operations.  *)
(***************************************************************************)
VARIABLES
    mem,        \* the memory
    spans,      \* span headers, by address
    base,       \* head of the span list
    span_count, \* number of spans
    pagesize,   \* cached page size
    maps,       \* the page provider's mappings
    halted,     \* "" or the failed assertion
    live,       \* payloads the caller holds -> bytes the caller may write
    ret,        \* the last operation: arguments, result, system calls
    frees,      \* the current run of consecutive m_free calls
    nops,       \* operations issued so far
    work        \* the caller's workload

vars == <<mem, spans, base, span_count, pagesize, maps, halted, live, ret, frees, nops,
          work>>

\* the allocator state as a record, with empty system-call logs
St == [mem |-> mem, spans |-> spans, base |-> base, span_count |-> span_count,
       pagesize |-> pagesize, maps |-> maps, halted |-> halted,
       mmaps |-> <<>>, munmaps |-> <<>>]

Install(s) ==
    /\ mem' = s.mem
    /\ spans' = s.spans
    /\ base' = s.base
    /\ span_count' = s.span_count
    /\ pagesize' = s.pagesize
    /\ maps' = s.maps
    /\ halted' = s.halted

SIZE_MAX == <<65535, 65535, 65535, 65535>>

\* calloc arguments <<n, s>> whose product overflows: 2^60 + 1 elements of
\* 16 bytes, 2^32 elements of 2^32 bytes
OverflowArgs == { <<<<1, 0, 0, 4096>>, U64(16)>>, <<<<0, 0, 1, 0>>, <<0, 0, 1, 0>>>> }

(***************************************************************************)
(* The caller runs one of a few workloads, each a small set of requests:   *)
(*   m  malloc sizes             r  realloc sizes for a live payload       *)
(*   z  realloc sizes for NULL   c  calloc arguments <<n, s>>              *)
(*   d  operations beyond MaxOps the workload runs for                     *)
(***************************************************************************)
Workloads ==
    [ small  |-> [m |-> {U64(100), U64(128)}, r |-> {}, z |-> {}, c |-> {}, d |-> 1],
      large  |-> [m |-> {U64(65456), U64(65457)}, r |-> {}, z |-> {}, c |-> {}, d |-> 2],
      resize |-> [m |-> {U64(50), U64(100)}, r |-> {U64(0), U64(60), U64(128), U64(400)},
                  z |-> {}, c |-> {}, d |-> 0],
      grow   |-> [m |-> {U64(100)}, r |-> {U64(128)}, z |-> {}, c |-> {}, d |-> 1],
      move   |-> [m |-> {U64(1)}, r |-> {U64(65456), U64(65457)}, z |-> {}, c |-> {},
                  d |-> 0],
      zero   |-> [m |-> {U64(0), U64(100)}, r |-> {}, z |-> {U64(0), U64(100)},
                  c |-> {<<U64(2), U64(50)>>, <<U64(0), U64(8)>>, <<U64(1), U64(65456)>>},
                  d |-> 0],
      wrap   |-> [m |-> {SIZE_MAX, WSub(SIZE_MAX, U64(63))}, r |-> {SIZE_MAX}, z |-> {},
                  c |-> OverflowArgs, d |-> 0] ]

Slots == 0 .. NSlots

\* bytes of a request of n bytes the caller writes: whole words, none when
\* the request is beyond the model's address space
Writable(n) == IF Fits(n) THEN (Narrow(n) \div WORD) * WORD ELSE 0

\* the blocks of span sp from block b on, in address order, found by walking
\* the sizes
RECURSIVE WalkFrom(_, _, _)
WalkFrom(s, sp, b) ==
    IF b >= sp + s.spans[sp].size \/ blksize(s, b) < ALIGNMENT THEN <<>>
    ELSE <<b>> \o WalkFrom(s, sp, b + blksize(s, b))

BlocksOf(s, sp) == WalkFrom(s, sp, spfirstblk(sp))

Range(f) == {f[i] : i \in DOMAIN f}

\* the blocks of all spans, as <<span, block>>
AllBlocks(s) == UNION {{<<sp, b>> : b \in Range(BlocksOf(s, sp))} : sp \in DOMAIN s.spans}

\* some free block of some span has room for gross bytes
FreeBlockFits(s, gross) ==
    \E x \in AllBlocks(s) : blkisfree(s, x[2]) /\ WLe(gross, U64(blksize(s, x[2])))

\* some word of [lo, hi) holds v
HasWord(m, lo, hi, v) ==
    \E i \in RunsUpTo(m, lo) .. RunsUpTo(m, hi - 1) : m[i][2] = v

\* no allocation is outstanding in any span
Idle(s) == \A sp \in DOMAIN s.spans : s.spans[sp].blkcount = 0

\* The caller's progress through the sequence p = malloc(n); free(p);
\* malloc(n) begun on an idle heap of at most one span: stage 1 after the
\* first malloc, stage 2 after the free that follows it at once, stage 3
\* after the malloc that follows the free at once; sp is the span that held
\* p and count the number of spans when the first malloc returned.
NoCycle == [stage |-> 0, n |-> ZERO, p |-> 0, sp |-> 0, count |-> 0]

Cycle(op, p, n, out) ==
    IF op = "malloc" /\ ret.cyc.stage = 2 /\ n = ret.cyc.n
    THEN [ret.cyc EXCEPT !.stage = 3]
    ELSE IF op = "malloc" /\ Idle(St) /\ span_count <= 1 /\ out.s.halted = "" /\ out.r # 0
    THEN [stage |-> 1, n |-> n, p |-> out.r, sp |-> blkowner(out.s, plblk(out.r)),
          count |-> out.s.span_count]
    ELSE IF op = "free" /\ ret.cyc.stage = 1 /\ p = ret.cyc.p /\ out.s.halted = ""
    THEN [ret.cyc EXCEPT !.stage = 2]
    ELSE NoCycle

\* the span list from sp on, in list order, k spans at most
RECURSIVE SpanChain(_, _, _)
SpanChain(s, sp, k) ==
    IF sp = 0 \/ k = 0 \/ sp \notin DOMAIN s.spans THEN <<>>
    ELSE <<sp>> \o SpanChain(s, s.spans[sp].next, k - 1)

\* the span list from base on
SpanSeq(s) == SpanChain(s, s.base, Cardinality(DOMAIN s.spans) + 1)

\* what the caller and the page provider saw of one operation, with a few
\* facts of the state it started in:
\*   nspans  span_count before           cur    size of p's block before
\*   fit     a free block could serve n  stale  the payload returned held
\*                                              poison bytes before
\*   cyc     how far the caller is into malloc(n), free(p) on an idle heap
\*   order   the span list before, from base on
Observe(op, p, n, cnt, out) ==
    [op |-> op, p |-> p, n |-> n, cnt |-> cnt, res |-> out.r,
     mmaps |-> out.s.mmaps, munmaps |-> out.s.munmaps,
     nspans |-> span_count,
     cur |-> IF p # 0 /\ Fits(SizeWord(St, plblk(p))) THEN blksize(St, plblk(p)) ELSE 0,
     fit |-> FreeBlockFits(St, blksizerequest(IF op = "calloc" THEN WMul(n, cnt) ELSE n)),
     stale |-> /\ out.s.halted = ""
               /\ out.r # 0
               /\ HasWord(mem, out.r, out.r + plsize(out.s, plblk(out.r)), POISON_WORD),
     cyc |-> Cycle(op, p, n, out),
     order |-> SpanSeq(St)]

NoOp == [op |-> "init", p |-> 0, n |-> ZERO, cnt |-> ZERO, res |-> 0,
         mmaps |-> <<>>, munmaps |-> <<>>, nspans |-> 0, cur |-> 0, fit |-> FALSE,
         stale |-> FALSE, cyc |-> NoCycle, order |-> <<>>]

Init ==
    /\ mem = <<<<0, UNMAPPED>>>>
    /\ spans = <<>>
    /\ base = 0
    /\ span_count = 0
    /\ pagesize = 0
    /\ maps = <<>>
    /\ halted = ""
    /\ live = <<>>
    /\ ret = NoOp
    /\ frees = [k |-> 0, u |-> 0]
    /\ nops = 0
    /\ work \in DOMAIN Workloads

Without(f, x) == [a \in DOMAIN f \ {x} |-> f[a]]

With(f, x, v) == [a \in DOMAIN f \cup {x} |-> IF a = x THEN v ELSE f[a]]

\* the process runs and the caller has operations left
Running == halted = "" /\ nops < MaxOps + Workloads[work].d

Tick == nops' = nops + 1 /\ UNCHANGED work

CanAllocate == Running /\ Cardinality(DOMAIN live) < MaxLive

\* the provider's offer matters only to a call that reaches mmap: a request
\* of n bytes that no free block can serve
ReachesMmap(n) == n # ZERO /\ blkfind(St, blksizerequest(n)) = 0

\* an in-place resize never allocates
Moves(p, n) ==
    IF p = 0 THEN TRUE
    ELSE
       LET bp == plblk(p)
           gross == blksizerequest(n)
           bq == blknextadj(St, bp)
       IN  /\ n # ZERO
           /\ WLt(U64(blksize(St, bp)), gross)
           /\ ~(/\ bq # 0
                /\ blkisfree(St, bq)
                /\ WLe(WSub(gross, U64(blksize(St, bp))), U64(blksize(St, bq))))

Malloc(n, slot) ==
    /\ CanAllocate
    /\ slot # 0 => ReachesMmap(n)
    /\ \E out \in {m_malloc(St, n, slot)} :
           /\ Install(out.s)
           /\ ret' = Observe("malloc", 0, n, ZERO, out)
           /\ live' = IF out.s.halted = "" /\ out.r # 0
                      THEN With(live, out.r, Writable(n)) ELSE live
           /\ frees' = [k |-> out.s.span_count, u |-> 0]
           /\ Tick

Calloc(cnt, sz, slot) ==
    /\ CanAllocate
    /\ slot # 0 => ReachesMmap(WMul(sz, cnt))
    /\ \E out \in {m_calloc(St, cnt, sz, slot)} :
           /\ Install(out.s)
           /\ ret' = Observe("calloc", 0, sz, cnt, out)
           /\ live' = IF out.s.halted = "" /\ out.r # 0
                      THEN With(live, out.r, 0) ELSE live
           /\ frees' = [k |-> out.s.span_count, u |-> 0]
           /\ Tick

Free(p) ==
    /\ Running
    /\ \E out \in {[s |-> m_free(St, p), r |-> 0]} :
           /\ Install(out.s)
           /\ ret' = Observe("free", p, ZERO, ZERO, out)
           /\ live' = IF p # 0 THEN Without(live, p) ELSE live
           /\ frees' = [frees EXCEPT !.u = @ + Len(out.s.munmaps)]
           /\ Tick

Realloc(p, n, slot) ==
    /\ Running
    /\ n \in (IF p = 0 THEN Workloads[work].z ELSE Workloads[work].r)
    /\ p = 0 => Cardinality(DOMAIN live) < MaxLive
    /\ slot # 0 => (Moves(p, n) /\ ReachesMmap(n))
    /\ \E out \in {m_realloc(St, p, n, slot)} :
           /\ Install(out.s)
           /\ ret' = Observe("realloc", p, n, ZERO, out)
           /\ live' = IF out.s.halted # "" \/ out.r = 0 THEN live
                      ELSE With(Without(live, p), out.r, Writable(n))
           /\ frees' = [k |-> out.s.span_count, u |-> 0]
           /\ Tick

\* the address lies in pages the provider has mapped
Mapped(s, a) == \E sp \in DOMAIN s.maps : sp <= a /\ a < sp + s.maps[sp]

\* the caller passes the pointer it has just freed to m_free once more; the
\* header of its block is read, so the span must still be mapped
FreeAgain ==
    /\ Running
    /\ ret.op = "free" /\ ret.p # 0
    /\ Mapped(St, plblk(ret.p))
    /\ \E out \in {[s |-> m_free(St, ret.p), r |-> 0]} :
           /\ Install(out.s)
           /\ ret' = Observe("double free", ret.p, ZERO, ZERO, out)
           /\ Tick
           /\ UNCHANGED <<live, frees>>

\* the caller fills the bytes it asked for
UserFill(p) ==
    /\ Running
    /\ live[p] > 0
    /\ ret.res = p
    /\ ~AllWords(mem, p, p + live[p], USER_WORD)
    /\ mem' = Fill(mem, p, live[p], USER_WORD)
    /\ ret' = [NoOp EXCEPT !.op = "write", !.p = p, !.nspans = span_count,
                            !.order = SpanSeq(St)]
    /\ frees' = [k |-> span_count, u |-> 0]
    /\ Tick
    /\ UNCHANGED <<spans, base, span_count, pagesize, maps, halted, live>>

Next ==
    \/ \E n \in Workloads[work].m, slot \in Slots : Malloc(n, slot)
    \/ \E a \in Workloads[work].c, slot \in Slots : Calloc(a[1], a[2], slot)
    \/ \E p \in DOMAIN live \cup {0} : Free(p)
    \/ \E p \in DOMAIN live \cup {0}, n \in Workloads[work].r \cup Workloads[work].z,
          slot \in Slots : Realloc(p, n, slot)
    \/ \E p \in DOMAIN live : UserFill(p)
    \/ FreeAgain

Spec == Init /\ [][Next]_vars

(***************************************************************************)
(* Properties.                                                             *)
(***************************************************************************)
\* the state the step arrives in
StNext == [mem |-> mem', spans |-> spans', base |-> base', span_count |-> span_count',
           pagesize |-> pagesize', maps |-> maps', halted |-> halted',
           mmaps |-> <<>>, munmaps |-> <<>>]

Allocates == ret.op \in {"malloc", "calloc", "realloc"}

\* the operation asked the provider for pages and was refused
MapFailed(o) == \E i \in DOMAIN o.mmaps : o.mmaps[i][2] = MAP_FAILED

\* p is the payload of an in-use block that the walk of some span arrives at
IsAllocated(s, p) ==
    \E x \in AllBlocks(s) : x[2] = p - BLOCK_HDR_PADSZ /\ ~blkisfree(s, x[2])

\* C1: every non-null pointer that malloc, calloc or realloc returned, and
\* every payload still held by the caller, is a multiple of 16 and lies
\* exactly 48 bytes above the header of an in-use block.
C1_Aligned ==
    halted = "" =>
        /\ (Allocates /\ ret.res # 0) =>
               /\ ret.res % ALIGNMENT = 0
               /\ IsAllocated(St, ret.res)
        /\ \A p \in DOMAIN live : p % ALIGNMENT = 0 /\ IsAllocated(St, p)

\* a realloc that moved the payload returned an aligned pointer while another
\* payload is held
C1_Witness ==
    /\ halted = ""
    /\ ret.op = "realloc" /\ ret.p # 0 /\ ret.res # 0 /\ ret.res # ret.p
    /\ Cardinality(DOMAIN live) >= 2
    /\ ret.res % ALIGNMENT = 0
    /\ IsAllocated(St, ret.res)

\* the payload range of a held pointer
PayloadEnd(p) == p + plsize(St, plblk(p))

\* C2: the payload ranges of any two held pointers are disjoint, and each
\* lies inside one mapped span, above that span's header.
C2_Disjoint ==
    halted = "" =>
        /\ \A p, q \in DOMAIN live :
               p # q => (PayloadEnd(p) <= q \/ PayloadEnd(q) <= p)
        /\ \A p \in DOMAIN live :
               \E sp \in DOMAIN maps :
                   /\ sp \in DOMAIN spans
                   /\ sp + SPAN_HDR_PADSZ <= p
                   /\ p < PayloadEnd(p)
                   /\ PayloadEnd(p) <= sp + maps[sp]

\* two held payloads are neighbours in one span, a third is in another span
C2_Witness ==
    /\ halted = ""
    /\ \E p, q, r \in DOMAIN live :
           /\ PayloadEnd(p) + BLOCK_HDR_PADSZ = q
           /\ blkowner(St, plblk(p)) = blkowner(St, plblk(q))
           /\ blkowner(St, plblk(r)) # blkowner(St, plblk(p))

\* C3: malloc(n) returns null exactly when n is 0 or the provider refused the
\* pages this call asked for; it does not return null while a free block of
\* some span can serve the request, and it does not ask for pages when n is 0.
C3_NullIff ==
    (halted = "" /\ ret.op = "malloc") =>
        /\ ret.res = 0 <=> (ret.n = ZERO \/ MapFailed(ret))
        /\ (ret.n # ZERO /\ ret.fit) => ret.res # 0
        /\ ret.n = ZERO => ret.mmaps = <<>>

\* the provider refused, and malloc returned null with payloads still held
C3_Witness ==
    /\ halted = ""
    /\ ret.op = "malloc" /\ ret.n # ZERO /\ ret.res = 0
    /\ MapFailed(ret)
    /\ ~ret.fit
    /\ live # <<>>

\* C4: when the provider refuses the pages malloc(n) asks for, malloc returns
\* null and spans, span count, free lists, block counts and every word of
\* memory are as before the call.
C4_MapFailure ==
    [][(ret'.op = "malloc" /\ MapFailed(ret')) =>
           /\ halted' = ""
           /\ ret'.res = 0
           /\ UNCHANGED <<mem, spans, base, span_count, maps, live>>]_vars

\* the provider refused while a span with a written payload exists
C4_Witness ==
    /\ ret.op = "malloc" /\ MapFailed(ret) /\ ret.res = 0
    /\ span_count >= 1 /\ ret.nspans = span_count
    /\ \E p \in DOMAIN live : live[p] > 0 /\ AllWords(mem, p, p + live[p], USER_WORD)

\* C5: when realloc(p, n) has to move the payload and the provider refuses
\* the pages of the new block, realloc returns null and nothing changed: p's
\* block is in use with its size and bytes, its span's counters and lists
\* are as before, and p is still held.
C5_MoveFailure ==
    [][(ret'.op = "realloc" /\ ret'.p # 0 /\ MapFailed(ret')) =>
           /\ halted' = ""
           /\ ret'.res = 0
           /\ UNCHANGED <<mem, spans, base, span_count, maps, live>>
           /\ ret'.p \in DOMAIN live'
           /\ IsAllocated(StNext, ret'.p)
           /\ blksize(StNext, plblk(ret'.p)) = ret'.cur]_vars

\* a moving realloc failed and the payload still holds the caller's bytes
C5_Witness ==
    /\ ret.op = "realloc" /\ ret.p # 0 /\ MapFailed(ret) /\ ret.res = 0
    /\ ret.p \in DOMAIN live
    /\ live[ret.p] > 0
    /\ AllWords(mem, ret.p, ret.p + live[ret.p], USER_WORD)
    /\ IsAllocated(St, ret.p)

\* the free list that starts at block bp
RECURSIVE ListFrom(_, _)
ListFrom(s, bp) == IF bp = 0 THEN {} ELSE {bp} \cup ListFrom(s, blknext(s, bp))

OnFreeList(s, bp) == bp \in ListFrom(s, s.spans[blkowner(s, bp)].free_list)

\* 48 + round_up(n, 16)
Gross(n) == BLOCK_HDR_PADSZ + ((n + ALIGNMENT - 1) \div ALIGNMENT) * ALIGNMENT

\* C6: a successful malloc(n), n > 0 and small enough that nothing wraps,
\* returns a block of gross size g with Gross(n) <= g < Gross(n) + 64 and so
\* g - 48 >= n; the free block chosen (the first fit, or the block of the span
\* just mapped) is handed out whole and leaves the free list exactly when its
\* size minus Gross(n) is below 64, and is otherwise cut at its upper end.
C6_GrossSize ==
    [][(ret'.op = "malloc" /\ halted' = "" /\ ret'.res # 0 /\ Fits(ret'.n)) =>
           LET n == Narrow(ret'.n)
               req == Gross(n)
               b == ret'.res - BLOCK_HDR_PADSZ
               g == blksize(StNext, b)
               found == blkfind(St, U64(req))
               chosen == IF found # 0 THEN found
                         ELSE ret'.mmaps[1][2] + SPAN_HDR_PADSZ
               csize == IF found # 0 THEN blksize(St, found)
                        ELSE Narrow(ret'.mmaps[1][1]) - SPAN_HDR_PADSZ
           IN  /\ req <= g /\ g < req + MIN_BLKSZ
               /\ g - BLOCK_HDR_PADSZ >= n
               /\ IF csize - req < MIN_BLKSZ
                  THEN /\ b = chosen /\ g = csize
                       /\ ~OnFreeList(StNext, chosen)
                  ELSE /\ b = chosen + csize - req /\ g = req
                       /\ blkisfree(StNext, chosen)
                       /\ blksize(StNext, chosen) = csize - req
                       /\ OnFreeList(StNext, chosen)]_vars

\* a freed block 16 bytes larger than the request was handed out whole
C6_Witness ==
    /\ halted = ""
    /\ ret.op = "malloc" /\ ret.res # 0 /\ ret.mmaps = <<>> /\ ret.fit
    /\ Fits(ret.n)
    /\ blksize(St, plblk(ret.res)) = Gross(Narrow(ret.n)) + ALIGNMENT
    /\ spans[blkowner(St, plblk(ret.res))].free_list # 0

\* C7: free(p) of the last allocation of a span unmaps the span exactly when
\* more than one span exists at that moment; so when the allocations of k >= 1
\* spans are freed one after another, k - 1 spans are unmapped and one span
\* with blkcount 0 remains.
C7_Unmap ==
    [][(ret'.op = "free" /\ ret'.p # 0 /\ halted' = "") =>
           LET sp == blkowner(St, plblk(ret'.p))
               last == spans[sp].blkcount = 1
           IN  /\ (last /\ span_count > 1) =>
                      /\ ret'.munmaps = << <<sp, spans[sp].size>> >>
                      /\ sp \notin DOMAIN maps'
                      /\ span_count' = span_count - 1
               /\ ~(last /\ span_count > 1) =>
                      /\ ret'.munmaps = <<>>
                      /\ maps' = maps
                      /\ span_count' = span_count
               /\ live' = <<>> =>
                      /\ frees.k >= 1
                      /\ frees'.u = frees.k - 1
                      /\ span_count' = 1
                      /\ DOMAIN maps' = {base'}
                      /\ spans'[base'].blkcount = 0]_vars

\* three spans were emptied one after another: two unmapped, one kept
C7_Witness ==
    /\ halted = ""
    /\ ret.op = "free" /\ ret.p # 0 /\ ret.munmaps = <<>>
    /\ live = <<>>
    /\ frees.k = 3 /\ frees.u = 2
    /\ span_count = 1 /\ spans[base].blkcount = 0

\* C8: after a successful calloc(count, size) every byte of the payload of the
\* returned block, up to its end and not only count * size bytes, is 0.
C8_Zeroed ==
    (halted = "" /\ ret.op = "calloc" /\ ret.res # 0) =>
        /\ IsAllocated(St, ret.res)
        /\ AllWords(mem, ret.res, PayloadEnd(ret.res), ZERO)

\* calloc returned a zeroed payload larger than count * size, in memory that
\* held the poison of an earlier free
C8_Witness ==
    /\ halted = ""
    /\ ret.op = "calloc" /\ ret.res # 0 /\ ret.stale
    /\ Narrow(WMul(ret.n, ret.cnt)) < plsize(St, plblk(ret.res))
    /\ AllWords(mem, ret.res, PayloadEnd(ret.res), ZERO)

\* the product of a and b does not fit 64 bits
MulOverflows(a, b) ==
    LET P(i, j) == LimbMul(a[i], b[j])
        c1 == P(1,1)[1]
        c2 == P(1,1)[2] + P(1,2)[1] + P(2,1)[1]
        c3 == P(1,2)[2] + P(2,1)[2] + P(1,3)[1] + P(2,2)[1] + P(3,1)[1]
        c4 == P(1,3)[2] + P(2,2)[2] + P(3,1)[2]
              + P(1,4)[1] + P(2,3)[1] + P(3,2)[1] + P(4,1)[1]
        s2 == c2 + (c1 \div LIMB)
        s3 == c3 + (s2 \div LIMB)
        s4 == c4 + (s3 \div LIMB)
    IN  \/ s4 \div LIMB > 0
        \/ \E i, j \in 1..4 : i + j = 5 /\ P(i, j)[2] > 0
        \/ \E i, j \in 1..4 : i + j > 5 /\ P(i, j) # <<0, 0>>

\* C9: calloc(count, size) returns null whenever count * size overflows the
\* size type.
C9_OverflowNull ==
    (halted = "" /\ ret.op = "calloc" /\ MulOverflows(ret.cnt, ret.n)) => ret.res = 0

Resizes(o) == o.op = "realloc" /\ o.p # 0 /\ o.n # ZERO /\ Fits(o.n)

\* C11: realloc(p, n) with 48 + round_up(n, 16) equal to the size of p's
\* block returns p, asks the provider for nothing, and leaves every word of
\* memory (block sizes, flags, links, footers), every span record (free list
\* heads, blkcount), the span list and the span count as they were.
C11_SameSize ==
    [][(Resizes(ret') /\ Gross(Narrow(ret'.n)) = ret'.cur) =>
           /\ halted' = ""
           /\ ret'.res = ret'.p
           /\ ret'.mmaps = <<>> /\ ret'.munmaps = <<>>
           /\ UNCHANGED <<mem, spans, base, span_count, maps>>
           /\ DOMAIN live' = DOMAIN live]_vars

\* a same-size realloc returned its argument while a free block other than
\* the first of the span was on the free list
C11_Witness ==
    /\ halted = ""
    /\ Resizes(ret) /\ Gross(Narrow(ret.n)) = ret.cur
    /\ ret.res = ret.p
    /\ IsAllocated(St, ret.p)
    /\ \E x \in AllBlocks(St) : blkisfree(St, x[2]) /\ x[2] # spfirstblk(x[1])

\* C12: realloc(NULL, n) does what malloc(n) does from the same state, the
\* provider answering alike: the same pointer (null when n is 0), the same
\* calls to the provider, and the same memory, span records, span list and
\* span count afterwards.
C12_NullIsMalloc ==
    [][(ret'.op = "realloc" /\ ret'.p = 0) =>
           /\ ret'.n = ZERO => ret'.res = 0
           /\ \E slot \in Slots : \E out \in {m_malloc(St, ret'.n, slot)} :
                  /\ ret'.res = out.r
                  /\ ret'.mmaps = out.s.mmaps /\ ret'.munmaps = out.s.munmaps
                  /\ mem' = out.s.mem
                  /\ spans' = out.s.spans
                  /\ base' = out.s.base
                  /\ span_count' = out.s.span_count
                  /\ maps' = out.s.maps
                  /\ halted' = out.s.halted]_vars

\* realloc(NULL, n) mapped a new span and returned a payload in it while two
\* other payloads were held
C12_Witness ==
    /\ halted = ""
    /\ ret.op = "realloc" /\ ret.p = 0 /\ ret.res # 0
    /\ Len(ret.mmaps) = 1 /\ ret.mmaps[1][2] = blkowner(St, plblk(ret.res))
    /\ Cardinality(DOMAIN live) = 3

\* C13: after every realloc(p, n) that returns a pointer q, the payload at q
\* starts with the bytes the payload at p held before the call, as many as
\* the smaller of the old and the new payload size, whether the block was
\* truncated, extended in place or moved.
C13_Preserved ==
    [][(ret'.op = "realloc" /\ ret'.p # 0 /\ halted' = "" /\ ret'.res # 0) =>
           LET new == blksize(StNext, plblk(ret'.res))
               kept == IF ret'.cur < new THEN ret'.cur ELSE new
           IN  SameWords(mem, ret'.p, mem', ret'.res, kept - BLOCK_HDR_PADSZ)]_vars

\* a realloc moved a payload the caller had written: the bytes are at the new
\* place and the old place is poisoned
C13_Witness ==
    /\ halted = ""
    /\ ret.op = "realloc" /\ ret.p # 0 /\ ret.res # 0 /\ ret.res # ret.p
    /\ Rd(mem, ret.res) = USER_WORD
    /\ HasWord(mem, ret.res, ret.res + ret.cur - BLOCK_HDR_PADSZ, ZERO)
    /\ Rd(mem, ret.p) = POISON_WORD

\* the in-use blocks of all spans, as <<span, block>>
InUse(s) == {x \in AllBlocks(s) : ~blkisfree(s, x[2])}

\* the size of the block physically after bp when there is one and it is
\* free, 0 otherwise
Room(s, bp) ==
    LET sp == blkowner(s, bp)
        nx == bp + blksize(s, bp)
    IN  IF nx < sp + s.spans[sp].size /\ blkisfree(s, nx) THEN blksize(s, nx) ELSE 0

\* C14: realloc(p, n) to a larger size, when the block physically after p's
\* block is free and at least 48 + round_up(n, 16) - cur bytes large, returns
\* p with the block grown to hold n bytes, makes no call to the provider, and
\* leaves the blkcount of the span and the number of in-use blocks of the heap
\* unchanged.
C14_InPlace ==
    [][(/\ Resizes(ret')
        /\ Gross(Narrow(ret'.n)) > ret'.cur
        /\ Room(St, plblk(ret'.p)) >= Gross(Narrow(ret'.n)) - ret'.cur) =>
           LET bp == plblk(ret'.p)
               sp == blkowner(St, bp)
           IN  /\ halted' = ""
               /\ ret'.res = ret'.p
               /\ ret'.mmaps = <<>> /\ ret'.munmaps = <<>>
               /\ ~blkisfree(StNext, bp)
               /\ blksize(StNext, bp) >= Gross(Narrow(ret'.n))
               /\ spans'[sp].blkcount = spans[sp].blkcount
               /\ Cardinality(InUse(StNext)) = Cardinality(InUse(St))
               /\ base' = base /\ span_count' = span_count /\ maps' = maps]_vars

\* a block grew in place over the whole of its free neighbour, 48 bytes
\* beyond its request
C14_Witness ==
    /\ halted = ""
    /\ Resizes(ret) /\ ret.res = ret.p /\ ret.mmaps = <<>>
    /\ Gross(Narrow(ret.n)) > ret.cur
    /\ blksize(St, plblk(ret.p)) = Gross(Narrow(ret.n)) + BLOCK_HDR_PADSZ
    /\ Cardinality(InUse(St)) = 1

\* the blocks of span sp whose bytes include address a
Covering(s, sp, a) == {b \in Range(BlocksOf(s, sp)) : b <= a /\ a < b + blksize(s, b)}

\* b is a free block as m_free leaves one: on its span's free list, its
\* footer holding its size, its payload poisoned up to the footer, and no
\* free block physically before or after it
Released(s, sp, b) ==
    /\ blkisfree(s, b)
    /\ blkowner(s, b) = sp
    /\ OnFreeList(s, b)
    /\ Rd(s.mem, blkfoot(s, b)) = U64(blksize(s, b))
    /\ AllWords(s.mem, blkpayload(b), blkfoot(s, b), POISON_WORD)
    /\ Room(s, b) = 0
    /\ \A y \in Range(BlocksOf(s, sp)) : y + blksize(s, y) = b => ~blkisfree(s, y)

\* C15: realloc(p, n) to a larger size, when the block physically after p's
\* block is missing, in use or smaller than 48 + round_up(n, 16) - cur, and
\* the provider refuses nothing, returns a pointer q # p to an in-use block of
\* at least 48 + round_up(n, 16) bytes; p's block is released as free(p)
\* releases it: its span is unmapped when it held no other block (the new
\* block being in another span), and otherwise the block is free, merged with
\* its free neighbours, poisoned and on the free list; the number of in-use
\* blocks of the heap is unchanged.
C15_Move ==
    [][(/\ Resizes(ret')
        /\ Gross(Narrow(ret'.n)) > ret'.cur
        /\ Room(St, plblk(ret'.p)) < Gross(Narrow(ret'.n)) - ret'.cur
        /\ ~MapFailed(ret')) =>
           LET bp == plblk(ret'.p)
               sp == blkowner(St, bp)
               q == ret'.res
               gone == spans[sp].blkcount = 1 /\ blkowner(StNext, plblk(q)) # sp
           IN  /\ halted' = ""
               /\ q # 0 /\ q # ret'.p
               /\ IsAllocated(StNext, q)
               /\ blksize(StNext, plblk(q)) >= Gross(Narrow(ret'.n))
               /\ Cardinality(InUse(StNext)) = Cardinality(InUse(St))
               /\ DOMAIN live' = (DOMAIN live \ {ret'.p}) \cup {q}
               /\ span_count' = span_count + Len(ret'.mmaps) - Len(ret'.munmaps)
               /\ IF gone
                  THEN /\ ret'.munmaps = << <<sp, spans[sp].size>> >>
                       /\ sp \notin DOMAIN maps'
                  ELSE /\ ret'.munmaps = <<>>
                       /\ sp \in DOMAIN maps'
                       /\ spans'[sp].blkcount =
                              spans[sp].blkcount - 1
                              + (IF blkowner(StNext, plblk(q)) = sp THEN 1 ELSE 0)
                       /\ \E b \in Covering(StNext, sp, bp) : Released(StNext, sp, b)]_vars

\* a payload moved to a new span; its old block merged with the free block
\* below it, in a span that still holds another payload
C15_Witness ==
    /\ halted = ""
    /\ Resizes(ret) /\ ret.res # 0 /\ ret.res # ret.p
    /\ Len(ret.mmaps) = 1 /\ ret.munmaps = <<>>
    /\ \E sp \in DOMAIN spans :
           /\ spans[sp].blkcount = 1
           /\ \E b \in Covering(St, sp, plblk(ret.p)) :
                  b < plblk(ret.p) /\ Released(St, sp, b)

\* a realloc(p, n) of a held payload with n < 2^30
Shapes(o) == o.op = "realloc" /\ o.p # 0 /\ Fits(o.n)

\* the gross size of a request of n < 2^30 bytes: 48 + round_up(n, 16), and
\* the minimum block size for n = 0
Asked(n) == IF n = ZERO THEN MIN_BLKSZ ELSE Gross(Narrow(n))

\* C16: realloc(p, n) with gross size g below the block's size cur and
\* cur - g >= 64 returns p; the block is in use with size exactly g and the
\* span's blkcount is unchanged; at block + g starts a free block with
\* PREV_IN_USE set that heads the span's free list, and its size is cur - g
\* plus the size of the block that followed p's block when that one was free.
C16_Truncate ==
    [][(/\ Shapes(ret')
        /\ Asked(ret'.n) < ret'.cur
        /\ ret'.cur - Asked(ret'.n) >= MIN_BLKSZ) =>
           LET bp == plblk(ret'.p)
               sp == blkowner(St, bp)
               g == Asked(ret'.n)
               nb == bp + g
               size == ret'.cur - g + Room(St, bp)
           IN  /\ halted' = ""
               /\ ret'.res = ret'.p
               /\ ret'.mmaps = <<>> /\ ret'.munmaps = <<>>
               /\ ~blkisfree(StNext, bp)
               /\ blksize(StNext, bp) = g
               /\ blkisprevfree(StNext, bp) = blkisprevfree(St, bp)
               /\ spans'[sp].blkcount = spans[sp].blkcount
               /\ blkisfree(StNext, nb)
               /\ ~blkisprevfree(StNext, nb)
               /\ blkowner(StNext, nb) = sp
               /\ spans'[sp].free_list = nb
               /\ blkprev(StNext, nb) = 0
               /\ blksize(StNext, nb) = size
               /\ Rd(mem', blkfoot(StNext, nb)) = U64(size)
               /\ Room(StNext, nb) = 0
               /\ blknextadj(StNext, nb) # 0 => blkisprevfree(StNext, blknextadj(StNext, nb))]_vars

\* a block was cut from 176 to 112 bytes and the 64 bytes split off merged
\* with the free block that followed
C16_Witness ==
    /\ halted = ""
    /\ Shapes(ret) /\ ret.n # ZERO /\ ret.res = ret.p
    /\ blksize(St, plblk(ret.p)) = Asked(ret.n)
    /\ ret.cur - Asked(ret.n) = MIN_BLKSZ
    /\ blkisfree(St, plblk(ret.p) + Asked(ret.n))
    /\ blksize(St, plblk(ret.p) + Asked(ret.n)) > MIN_BLKSZ
    /\ blknext(St, plblk(ret.p) + Asked(ret.n)) # 0

C18_Reuse ==
    (halted = "" /\ ret.cyc.stage = 3) =>
        /\ ret.mmaps = <<>>
        /\ ret.res # 0
        /\ ret.cyc.sp \in DOMAIN maps
        /\ blkowner(St, plblk(ret.res)) = ret.cyc.sp

\* C18: on a heap with no allocation outstanding and at most one span,
\* p = malloc(n); free(p); q = malloc(n), when one span exists as the first
\* malloc returns, asks the provider for nothing in the second malloc and
\* returns q in the span that held p.
C18_ReuseOneSpan ==
    (halted = "" /\ ret.cyc.stage = 3 /\ ret.cyc.count = 1) =>
        /\ ret.mmaps = <<>>
        /\ ret.res # 0
        /\ ret.cyc.sp \in DOMAIN maps
        /\ blkowner(St, plblk(ret.res)) = ret.cyc.sp

\* the second malloc(65457) was served from the retained span of 69632 bytes
\* that held p, in memory poisoned by the free
C18_Witness ==
    /\ halted = ""
    /\ ret.cyc.stage = 3 /\ ret.cyc.count = 1
    /\ ret.n = U64(65457)
    /\ ret.mmaps = <<>> /\ ret.res # 0 /\ ret.stale
    /\ blkowner(St, plblk(ret.res)) = ret.cyc.sp
    /\ spans[ret.cyc.sp].size > MIN_MMAPSZ

\* C19: whenever a span of the list has blkcount 0, its free list holds one
\* block only: the block at span + 32, free, of size span.size - 32, with
\* that size in the footer at the end of the span.
C19_IdleSpanWhole ==
    halted = "" =>
        \A sp \in DOMAIN spans :
            spans[sp].blkcount = 0 =>
                LET b == spfirstblk(sp)
                IN  /\ sp \in DOMAIN maps
                    /\ spans[sp].free_list = b
                    /\ blkprev(St, b) = 0 /\ blknext(St, b) = 0
                    /\ blkisfree(St, b)
                    /\ blkowner(St, b) = sp
                    /\ blksize(St, b) = spans[sp].size - SPAN_HDR_PADSZ
                    /\ Rd(mem, sp + spans[sp].size - WORD)
                           = U64(spans[sp].size - SPAN_HDR_PADSZ)
                    /\ BlocksOf(St, sp) = <<b>>

\* the last block of a span, one of 176 bytes that a realloc(p, 128) had
\* made, was freed between a free block below and a free block above it
C19_Witness ==
    /\ halted = ""
    /\ ret.op = "free" /\ ret.p # 0 /\ ret.munmaps = <<>>
    /\ \E sp \in DOMAIN spans :
           /\ spans[sp].blkcount = 0
           /\ spfirstblk(sp) < plblk(ret.p)
           /\ plblk(ret.p) + ret.cur < sp + spans[sp].size
           /\ BlocksOf(St, sp) = <<spfirstblk(sp)>>
    /\ work = "resize" /\ ret.cur = Gross(128)

\* C20: m_free(p) called again right after m_free(p), the span of p still
\* mapped, stops the process at the assertion that the block is in use, with
\* memory, span records, span list, span count and mappings as the first
\* free left them; so also when the first free merged the block into the
\* free block below it and poison bytes lie where its header was.
C20_DoubleFree ==
    [][ret'.op = "double free" =>
           /\ halted' = "m_free: in use"
           /\ ret'.munmaps = <<>>
           /\ UNCHANGED <<mem, spans, base, span_count, pagesize, maps>>]_vars

\* the second free stopped at the assertion on a header overwritten with
\* poison, while another payload was held
C20_Witness ==
    /\ ret.op = "double free"
    /\ halted = "m_free: in use"
    /\ Rd(mem, plblk(ret.p)) = POISON_WORD
    /\ AllWords(mem, plblk(ret.p), ret.p, POISON_WORD)
    /\ live # <<>>

\* C21: in every state between public operations, for any two physically
\* adjacent blocks A (lower) and B (upper) of one span, the PREV_IN_USE bit
\* of B equals the IN_USE bit of A.
C21_PrevBit ==
    halted = "" =>
        \A sp \in DOMAIN spans :
            \E B \in {BlocksOf(St, sp)} :
                \A i \in 1 .. Len(B) - 1 :
                    blkisprevfree(St, B[i + 1]) = blkisfree(St, B[i])

\* a free left a span with a free block, a block in use and a free block,
\* in this order of addresses
C21_Witness ==
    /\ halted = ""
    /\ ret.op = "free" /\ ret.p # 0
    /\ \E sp \in DOMAIN spans :
           \E i \in 1 .. Len(BlocksOf(St, sp)) - 2 :
               /\ blkisfree(St, BlocksOf(St, sp)[i])
               /\ ~blkisfree(St, BlocksOf(St, sp)[i + 1])
               /\ blkisfree(St, BlocksOf(St, sp)[i + 2])
               /\ BlocksOf(St, sp)[i + 2] = plblk(ret.p)

\* C22: after every public operation no span holds two physically adjacent
\* blocks that are both free.
C22_NoFreePair ==
    halted = "" =>
        \A sp \in DOMAIN spans :
            \E B \in {BlocksOf(St, sp)} :
                \A i \in 1 .. Len(B) - 1 : ~(blkisfree(St, B[i]) /\ blkisfree(St, B[i + 1]))

\* a free merged its block into the free block below it, in a span that
\* still holds a block in use above
C22_Witness ==
    /\ halted = ""
    /\ ret.op = "free" /\ ret.p # 0
    /\ \E sp \in DOMAIN spans :
           \E i \in 1 .. Len(BlocksOf(St, sp)) - 1 :
               /\ blkisfree(St, BlocksOf(St, sp)[i])
               /\ BlocksOf(St, sp)[i] < plblk(ret.p)
               /\ plblk(ret.p) < BlocksOf(St, sp)[i + 1]
               /\ ~blkisfree(St, BlocksOf(St, sp)[i + 1])

\* C23: the blocks of a span tile it exactly: the walk by block sizes from
\* span + 32 goes from block to block and ends at span + span.size, the
\* sizes add up to span.size - 32, and every size is a multiple of 16 and
\* at least 64.
C23_Tiling ==
    halted = "" =>
        \A sp \in DOMAIN spans :
            \E B \in {BlocksOf(St, sp)} :
                LET RECURSIVE Sum(_)
                    Sum(i) == IF i = 0 THEN 0 ELSE blksize(St, B[i]) + Sum(i - 1)
                IN  /\ sp \in DOMAIN maps /\ maps[sp] = spans[sp].size
                    /\ Len(B) >= 1
                    /\ B[1] = sp + SPAN_HDR_PADSZ
                    /\ \A i \in 1 .. Len(B) :
                           /\ blksize(St, B[i]) % ALIGNMENT = 0
                           /\ blksize(St, B[i]) >= MIN_BLKSZ
                           /\ i < Len(B) => B[i + 1] = B[i] + blksize(St, B[i])
                    /\ B[Len(B)] + blksize(St, B[Len(B)]) = sp + spans[sp].size
                    /\ Sum(Len(B)) = spans[sp].size - SPAN_HDR_PADSZ

\* malloc(100) took a free block of 176 bytes whole, 16 bytes more than it
\* needed, in a span of three blocks or more
C23_Witness ==
    /\ halted = ""
    /\ ret.op = "malloc" /\ ret.n = U64(100) /\ ret.res # 0
    /\ blksize(St, plblk(ret.res)) = Gross(100) + ALIGNMENT
    /\ Len(BlocksOf(St, blkowner(St, plblk(ret.res)))) >= 3

\* C24: in every state between public operations the blkcount of each span
\* is the number of blocks with IN_USE set that the walk of the span finds;
\* an allocation adds exactly 1 to the count of the span that serves it, a
\* free takes exactly 1 from the count of the span of the block, and a
\* truncate or an in-place extend leaves every count as it was.
C24_Count ==
    [][halted' = "" =>
           LET Was(sp) == IF sp \in DOMAIN spans THEN spans[sp].blkcount ELSE 0
               Now(sp) == IF sp \in DOMAIN spans' THEN spans'[sp].blkcount ELSE 0
               Same(X) == \A sp \in (DOMAIN spans \cup DOMAIN spans') \ X : Now(sp) = Was(sp)
               at == blkowner(StNext, plblk(ret'.res))
               from == blkowner(St, plblk(ret'.p))
           IN  /\ \A sp \in DOMAIN spans' :
                      spans'[sp].blkcount =
                          Cardinality({x \in InUse(StNext) : x[1] = sp})
               /\ (ret'.op \in {"malloc", "calloc"} /\ ret'.res # 0) =>
                      Now(at) = Was(at) + 1 /\ Same({at})
               /\ (ret'.op = "realloc" /\ ret'.p = 0 /\ ret'.res # 0) =>
                      Now(at) = Was(at) + 1 /\ Same({at})
               /\ (ret'.op = "free" /\ ret'.p # 0) =>
                      Now(from) = Was(from) - 1 /\ Same({from})
               /\ (ret'.op = "realloc" /\ ret'.p # 0 /\ ret'.res = ret'.p) => Same({})
               /\ (ret'.op \in {"malloc", "calloc", "realloc"} /\ ret'.res = 0) => Same({})]_vars

\* realloc grew a block in place over the free block after it, beside
\* another block in use of the same span: two blocks counted before and after
C24_Witness ==
    /\ halted = ""
    /\ ret.op = "realloc" /\ ret.p # 0 /\ ret.res = ret.p
    /\ blksize(St, plblk(ret.p)) > ret.cur
    /\ spans[blkowner(St, plblk(ret.p))].blkcount = 2

\* C25: every free block, found by the walk of its span or on its free
\* list, has IN_USE clear, and the last 8 bytes of the block hold its gross
\* size.
C25_Footer ==
    halted = "" =>
        \A sp \in DOMAIN spans :
            \E B \in {Range(BlocksOf(St, sp))}, L \in {ListFrom(St, spans[sp].free_list)} :
                \A b \in B \cup L :
                    /\ b \in L => blkisfree(St, b)
                    /\ blkisfree(St, b) =>
                           Rd(mem, b + blksize(St, b) - WORD) = U64(blksize(St, b))

\* a free merged its block into the free block below it: the merged block
\* is poisoned from its payload up to its footer, which holds the new size
C25_Witness ==
    /\ halted = ""
    /\ ret.op = "free" /\ ret.p # 0
    /\ \E x \in AllBlocks(St) :
           /\ blkisfree(St, x[2])
           /\ x[2] < plblk(ret.p) /\ plblk(ret.p) < x[2] + blksize(St, x[2])
           /\ AllWords(mem, blkpayload(x[2]), blkfoot(St, x[2]), POISON_WORD)
           /\ Rd(mem, blkfoot(St, x[2])) = U64(blksize(St, x[2]))
           /\ spans[x[1]].blkcount > 0

\* C26: the free list of each span is an acyclic doubly-linked list: the
\* head has no prev, next and prev are inverse to each other, and the last
\* member has no next; its members are the free blocks that lie in the span,
\* each one once, each with the span as its owner; no block in use is on it.
C26_FreeList ==
    halted = "" =>
        \A sp \in DOMAIN spans :
            \E B \in {Range(BlocksOf(St, sp))} :
                LET RECURSIVE Chain(_, _)
                    Chain(b, k) == IF b = 0 \/ k = 0 \/ b \notin B THEN <<>>
                                   ELSE <<b>> \o Chain(blknext(St, b), k - 1)
                IN  \E L \in {Chain(spans[sp].free_list, Cardinality(B) + 1)} :
                        /\ spans[sp].free_list \in B \cup {0}
                        /\ Len(L) <= Cardinality(B)
                        /\ \A i \in 1 .. Len(L) :
                               /\ blknext(St, L[i]) \in B \cup {0}
                               /\ blkisfree(St, L[i])
                               /\ blkowner(St, L[i]) = sp
                               /\ blkprev(St, L[i]) = IF i = 1 THEN 0 ELSE L[i - 1]
                               /\ blknext(St, L[i]) = IF i = Len(L) THEN 0 ELSE L[i + 1]
                               /\ \A j \in 1 .. Len(L) : L[j] = L[i] => j = i
                        /\ Range(L) = {b \in B : blkisfree(St, b)}

\* two truncations and the remainder of the span make a free list of three
\* blocks, the one made last at the head
C26_Witness ==
    /\ halted = ""
    /\ ret.op = "realloc" /\ ret.p # 0 /\ ret.res = ret.p
    /\ \E sp \in DOMAIN spans :
           /\ spans[sp].free_list = plblk(ret.p) + blksize(St, plblk(ret.p))
           /\ Cardinality(ListFrom(St, spans[sp].free_list)) = 3
           /\ blkprev(St, blknext(St, blknext(St, spans[sp].free_list)))
                  = blknext(St, spans[sp].free_list)

\* C27: the span list is a well-formed doubly-linked list of exactly the
\* mapped spans: base is null exactly when no span exists, the head has no
\* prev and the tail no next, prev and next are inverse to each other, and
\* span_count is the length of the list.
C27_SpanList ==
    halted = "" =>
        LET RECURSIVE Chain(_, _)
            Chain(sp, k) == IF sp = 0 \/ k = 0 \/ sp \notin DOMAIN spans THEN <<>>
                            ELSE <<sp>> \o Chain(spans[sp].next, k - 1)
            L == Chain(base, Cardinality(DOMAIN spans) + 1)
        IN  /\ base \in DOMAIN spans \cup {0}
            /\ base = 0 <=> DOMAIN maps = {}
            /\ Len(L) <= Cardinality(DOMAIN spans)
            /\ \A i \in 1 .. Len(L) :
                   /\ spans[L[i]].prev = IF i = 1 THEN 0 ELSE L[i - 1]
                   /\ spans[L[i]].next = IF i = Len(L) THEN 0 ELSE L[i + 1]
                   /\ \A j \in 1 .. Len(L) : L[j] = L[i] => j = i
            /\ Range(L) = DOMAIN maps
            /\ span_count = Len(L)

\* a free unmapped one span of three and left a list of two
C27_Witness ==
    /\ halted = ""
    /\ ret.op = "free" /\ Len(ret.munmaps) = 1 /\ ret.nspans = 3
    /\ span_count = 2
    /\ spans[base].next # 0
    /\ spans[spans[base].next].prev = base

\* C28: the span list is ordered most recently created first among the
\* spans still mapped: after every operation it is the spans the operation
\* mapped, the last mapped first, followed by the list as it was before
\* without the spans the operation unmapped; an unmapped span was on the
\* list, at its head, in the middle or at its tail.
C28_SpanOrder ==
    halted = "" =>
        LET Got(m) == m[2] # MAP_FAILED
            added == SelectSeq(ret.mmaps, Got)
            removed == {ret.munmaps[i][1] : i \in DOMAIN ret.munmaps}
            Keep(sp) == sp \notin removed
        IN  /\ SpanSeq(St) = [i \in 1 .. Len(added) |-> added[Len(added) + 1 - i][2]]
                                 \o SelectSeq(ret.order, Keep)
            /\ removed \subseteq Range(ret.order)
            /\ Cardinality(removed) = Len(ret.munmaps)

\* a free unmapped the middle span of a list of three
C28_Witness ==
    /\ halted = ""
    /\ ret.op = "free" /\ Len(ret.order) = 3
    /\ ret.munmaps # <<>> /\ ret.munmaps[1][1] = ret.order[2]
    /\ SpanSeq(St) = <<ret.order[1], ret.order[3]>>

\* C29 as stated: the first block of every mapped span, the block at
\* span + 32, has PREV_IN_USE set to 1 in every reachable state, from the
\* creation of the span onward.
C29_FirstPrevInUse ==
    halted = "" =>
        \A sp \in DOMAIN spans : ~blkisprevfree(St, spfirstblk(sp))

\* C29 amended: the first block of every mapped span has PREV_IN_USE clear
\* in every reachable state, from the creation of the span onward.
C29_FirstPrevClear ==
    halted = "" =>
        \A sp \in DOMAIN spans : blkisprevfree(St, spfirstblk(sp))

\* malloc returned the first block of a span, taken whole; the block is in
\* use with PREV_IN_USE clear
C29_Witness ==
    /\ halted = ""
    /\ ret.op = "malloc" /\ ret.res # 0
    /\ \E sp \in DOMAIN spans :
           /\ plblk(ret.res) = spfirstblk(sp)
           /\ ~blkisfree(St, spfirstblk(sp))
           /\ blkisprevfree(St, spfirstblk(sp))
           /\ BlocksOf(St, sp) = <<spfirstblk(sp)>>

C31_SpanAlloc ==
    [][\A i \in DOMAIN ret'.mmaps :
           LET sp == ret'.mmaps[i][2]
               G == blksizerequest(IF ret'.op = "calloc" THEN WMul(ret'.n, ret'.cnt)
                                   ELSE ret'.n)
               g == Narrow(G)
               most == IF g + SPAN_HDR_PADSZ > MIN_MMAPSZ THEN g + SPAN_HDR_PADSZ
                       ELSE MIN_MMAPSZ
               size == ((most + PageSize - 1) \div PageSize) * PageSize
               b == sp + SPAN_HDR_PADSZ
           IN  (sp # MAP_FAILED /\ Fits(G)) =>
                   \E out \in {spalloc([St EXCEPT !.pagesize = PageSize], G,
                                       sp \div MIN_MMAPSZ)} :
                       /\ out.r = sp /\ out.s.halted = ""
                       /\ ret'.mmaps[i][1] = U64(size)
                       /\ out.s.maps[sp] = size
                       /\ out.s.spans[sp].size = size
                       /\ out.s.spans[sp].blkcount = 0
                       /\ out.s.spans[sp].free_list = b
                       /\ blkisfree(out.s, b)
                       /\ blkowner(out.s, b) = sp
                       /\ blkprev(out.s, b) = 0 /\ blknext(out.s, b) = 0
                       /\ blksize(out.s, b) = size - SPAN_HDR_PADSZ
                       /\ Rd(out.s.mem, sp + size - WORD) = U64(size - SPAN_HDR_PADSZ)
                       /\ BlocksOf(out.s, sp) = <<b>>
                       /\ out.s.span_count = span_count + 1
                       /\ DOMAIN out.s.spans = DOMAIN spans \cup {sp}
                       /\ sp \notin DOMAIN spans
                       /\ halted' = "" => spans'[sp].size = size]_vars

\* malloc(65457) mapped a second span, of 69632 bytes, beside one of 65536
C31_Witness ==
    /\ halted = ""
    /\ ret.op = "malloc" /\ ret.n = U64(65457) /\ ret.res # 0
    /\ Len(ret.mmaps) = 1 /\ ret.mmaps[1][2] # MAP_FAILED
    /\ ret.mmaps[1][1] = U64(69632)
    /\ span_count = 2
    /\ spans[ret.mmaps[1][2]].size = 69632

\* C32: an allocation of n bytes is served from the first free block of size
\* >= gross(n) met when the spans are scanned in list order and the free
\* list of each span from its head; the page provider is called only when no
\* free block of any mapped span has size >= gross(n), so a retained idle
\* span that fits is used again and no new one is mapped.
C32_FirstFit ==
    [][LET N == IF ret'.op = "calloc" THEN WMul(ret'.n, ret'.cnt) ELSE ret'.n
           g == Narrow(blksizerequest(N))
           RECURSIVE Chain(_, _)
           Chain(b, k) == IF b = 0 \/ k = 0 THEN <<>>
                          ELSE <<b>> \o Chain(blknext(St, b), k - 1)
           RECURSIVE Scan(_)
           Scan(i) == IF i > Len(SpanSeq(St)) THEN <<>>
                      ELSE Chain(spans[SpanSeq(St)[i]].free_list,
                                 Len(BlocksOf(St, SpanSeq(St)[i])) + 1) \o Scan(i + 1)
           Big(b) == blksize(St, b) >= g
           bp == plblk(ret'.res)
       IN  (/\ ret'.op \in {"malloc", "calloc"} \/ (ret'.op = "realloc" /\ ret'.p = 0)
            /\ N # ZERO /\ Fits(N) /\ halted' = "") =>
               \E fit \in {SelectSeq(Scan(1), Big)} :
                   /\ fit = <<>> <=> ret'.mmaps # <<>>
                   /\ (\E x \in AllBlocks(St) : blkisfree(St, x[2]) /\ blksize(St, x[2]) >= g)
                          <=> ret'.mmaps = <<>>
                   /\ fit # <<>> =>
                          /\ ret'.res # 0
                          /\ fit[1] <= bp /\ bp < fit[1] + blksize(St, fit[1])
                          /\ bp + blksize(StNext, bp) = fit[1] + blksize(St, fit[1])
                          /\ DOMAIN maps' = DOMAIN maps
                   /\ (fit = <<>> /\ ret'.res # 0) =>
                          /\ blkowner(StNext, bp) = ret'.mmaps[1][2]
                          /\ base' = ret'.mmaps[1][2]]_vars

\* malloc was served from the span at the head of the list, mapped last,
\* while the older span behind it has a free block that fits as well
C32_Witness ==
    /\ halted = ""
    /\ ret.op = "malloc" /\ ret.res # 0 /\ ret.mmaps = <<>>
    /\ span_count = 2
    /\ blkowner(St, plblk(ret.res)) = base
    /\ \E b \in Range(BlocksOf(St, spans[base].next)) :
           blkisfree(St, b) /\ blksize(St, b) >= blksize(St, plblk(ret.res))

\* C33: when an allocation splits a free block (remainder >= 64) the new
\* block is carved from the high-address end: the free remainder keeps its
\* address and its place on the free list and shrinks by exactly gross; the
\* new block has size exactly gross, IN_USE set and PREV_IN_USE clear.
\* malloc(128) on an empty heap gives one span of 65536 bytes, a free block
\* of 65328 bytes, blkcount 1 and the payload at span + 65408.
C33_Split ==
    [][LET N == IF ret'.op = "calloc" THEN WMul(ret'.n, ret'.cnt) ELSE ret'.n
           RECURSIVE Chain(_, _, _)
           Chain(s, b, k) == IF b = 0 \/ k = 0 THEN <<>>
                             ELSE <<b>> \o Chain(s, blknext(s, b), k - 1)
           List(s, sp) == Chain(s, s.spans[sp].free_list, Len(BlocksOf(s, sp)) + 1)
           Carved(g, sp, c, size, before, bp) ==
               size - g >= MIN_BLKSZ =>
                   /\ bp = c + size - g
                   /\ blksize(StNext, bp) = g
                   /\ ~blkisfree(StNext, bp)
                   /\ blkisprevfree(StNext, bp)
                   /\ blkowner(StNext, bp) = sp
                   /\ blkisfree(StNext, c)
                   /\ blksize(StNext, c) = size - g
                   /\ Rd(mem', bp - WORD) = U64(size - g)
                   /\ List(StNext, sp) = before
                   /\ spans'[sp].blkcount
                          = (IF sp \in DOMAIN spans THEN spans[sp].blkcount ELSE 0) + 1
                   /\ (ret'.op = "malloc" /\ N = U64(128) /\ DOMAIN maps = {}) =>
                          /\ span_count' = 1 /\ DOMAIN spans' = {sp}
                          /\ spans'[sp].size = 65536
                          /\ BlocksOf(StNext, sp) = <<sp + 32, sp + 65360>>
                          /\ blksize(StNext, sp + 32) = 65328
                          /\ spans'[sp].blkcount = 1
                          /\ ret'.res = sp + 65408
       IN  (/\ ret'.op \in {"malloc", "calloc"} \/ (ret'.op = "realloc" /\ ret'.p = 0)
            /\ N # ZERO /\ Fits(N) /\ halted' = "" /\ ret'.res # 0) =>
               IF ret'.mmaps = <<>>
               THEN \E c \in {blkfind(St, blksizerequest(N))} :
                        \E sp \in {blkowner(St, c)} :
                            Carved(Narrow(blksizerequest(N)), sp, c, blksize(St, c),
                                   List(St, sp), plblk(ret'.res))
               ELSE \E sp \in {ret'.mmaps[1][2]} :
                        Carved(Narrow(blksizerequest(N)), sp, spfirstblk(sp),
                               spans'[sp].size - SPAN_HDR_PADSZ, <<spfirstblk(sp)>>,
                               plblk(ret'.res))]_vars

\* malloc split the second block of a free list of two, the head being too
\* small, and the list is the same two blocks in the same order
C33_Witness ==
    /\ halted = ""
    /\ ret.op = "malloc" /\ ret.res # 0 /\ ret.mmaps = <<>>
    /\ \E sp \in DOMAIN spans :
           /\ blkowner(St, plblk(ret.res)) = sp
           /\ spans[sp].free_list # 0
           /\ blknext(St, spans[sp].free_list) # 0
           /\ blknext(St, spans[sp].free_list) + blksize(St, blknext(St, spans[sp].free_list))
                  = plblk(ret.res)
           /\ blksize(St, spans[sp].free_list) < blksize(St, plblk(ret.res))

\* C34: after free(p) that does not unmap the span: if the block physically
\* before p's block was free, the merged block keeps the address of that
\* block and its place on the free list, and the freed block is not on the
\* list; otherwise the freed block is the head of the free list of its span;
\* in both cases a free block physically after it is absorbed and leaves the
\* list, and the other entries keep their relative order.
C34_FreeOrder ==
    [][(ret'.op = "free" /\ ret'.p # 0 /\ ret'.munmaps = <<>> /\ halted' = "") =>
           \E bp \in {plblk(ret'.p)} : \E sp \in {blkowner(St, bp)} :
           \E B \in {BlocksOf(St, sp)} : \E A \in {BlocksOf(StNext, sp)} :
               LET RECURSIVE Chain(_, _, _, _)
                   Chain(s, W, b, k) ==
                       IF b = 0 \/ k = 0 THEN <<>>
                       ELSE IF b \notin Range(W) THEN <<-1>>
                       ELSE <<b>> \o Chain(s, W, blknext(s, b), k - 1)
                   i == CHOOSE j \in DOMAIN B : B[j] = bp
                   prevfree == i > 1 /\ blkisfree(St, B[i - 1])
                   nextfree == i < Len(B) /\ blkisfree(St, B[i + 1])
                   start == IF prevfree THEN B[i - 1] ELSE bp
                   size == (IF prevfree THEN blksize(St, B[i - 1]) ELSE 0) + blksize(St, bp)
                           + (IF nextfree THEN blksize(St, B[i + 1]) ELSE 0)
                   Stays(b) == ~(nextfree /\ b = B[i + 1])
               IN  \E before \in {Chain(St, B, spans[sp].free_list, Len(B) + 1)} :
                       /\ bp \in Range(B)
                       /\ start \in Range(A)
                       /\ blkisfree(StNext, start)
                       /\ blksize(StNext, start) = size
                       /\ Chain(StNext, A, spans'[sp].free_list, Len(A) + 1)
                              = IF prevfree THEN SelectSeq(before, Stays)
                                ELSE <<bp>> \o SelectSeq(before, Stays)
                       /\ prevfree => bp \notin Range(A)
                       /\ nextfree => B[i + 1] \notin Range(A)]_vars

\* a free merged its block into the free block before it, and that block
\* stayed behind another entry of the free list
C34_Witness ==
    /\ halted = ""
    /\ ret.op = "free" /\ ret.p # 0 /\ ret.munmaps = <<>>
    /\ \E x \in AllBlocks(St) :
           /\ blkisfree(St, x[2])
           /\ x[2] < plblk(ret.p)
           /\ plblk(ret.p) + ret.cur <= x[2] + blksize(St, x[2])
           /\ spans[x[1]].free_list # x[2]

\* C35: an in-place extend of block b over its free neighbour next, with
\* leftover = size(b) + size(next) - gross: when leftover < 64, b gets the
\* size size(b) + size(next), next leaves the free list and the block after
\* next, if there is one, has BIT_PREV_IN_USE set; otherwise b gets exactly
\* gross, a free block of size leftover starts at b + gross, is the head of
\* the free list and has BIT_PREV_IN_USE set; in both cases the sizes of the
\* blocks of the span sum to span.size - 32.
C35_Extend ==
    [][(/\ Resizes(ret')
        /\ halted' = ""
        /\ Gross(Narrow(ret'.n)) > ret'.cur
        /\ Room(St, plblk(ret'.p)) >= Gross(Narrow(ret'.n)) - ret'.cur) =>
           \E bp \in {plblk(ret'.p)} : \E sp \in {blkowner(St, plblk(ret'.p))} :
           \E B \in {BlocksOf(St, sp)} : \E A \in {BlocksOf(StNext, sp)} :
               LET RECURSIVE Chain(_, _, _, _)
                   Chain(s, W, b, k) ==
                       IF b = 0 \/ k = 0 THEN <<>>
                       ELSE IF b \notin Range(W) THEN <<-1>>
                       ELSE <<b>> \o Chain(s, W, blknext(s, b), k - 1)
                   RECURSIVE Sum(_, _)
                   Sum(s, W) == IF W = <<>> THEN 0 ELSE blksize(s, Head(W)) + Sum(s, Tail(W))
                   gross == Gross(Narrow(ret'.n))
                   next == bp + ret'.cur
                   after == next + blksize(St, next)
                   leftover == ret'.cur + blksize(St, next) - gross
                   Stays(b) == b # next
               IN  \E before \in {Chain(St, B, spans[sp].free_list, Len(B) + 1)} :
                       /\ next \in Range(B) /\ next \in Range(before)
                       /\ Sum(StNext, A) = spans'[sp].size - SPAN_HDR_PADSZ
                       /\ IF leftover < MIN_BLKSZ
                          THEN /\ blksize(StNext, bp) = ret'.cur + blksize(St, next)
                               /\ next \notin Range(A)
                               /\ Chain(StNext, A, spans'[sp].free_list, Len(A) + 1)
                                      = SelectSeq(before, Stays)
                               /\ after < sp + spans[sp].size =>
                                      /\ after \in Range(A)
                                      /\ ~blkisprevfree(StNext, after)
                          ELSE /\ blksize(StNext, bp) = gross
                               /\ bp + gross \in Range(A)
                               /\ blkisfree(StNext, bp + gross)
                               /\ blksize(StNext, bp + gross) = leftover
                               /\ spans'[sp].free_list = bp + gross
                               /\ ~blkisprevfree(StNext, bp + gross)
                               /\ Chain(StNext, A, spans'[sp].free_list, Len(A) + 1)
                                      = <<bp + gross>> \o SelectSeq(before, Stays)]_vars

\* a block grew in place over all of its free neighbour, and a block in use
\* comes after that neighbour
C35_Witness ==
    /\ halted = ""
    /\ Resizes(ret) /\ ret.res = ret.p /\ ret.mmaps = <<>>
    /\ Gross(Narrow(ret.n)) > ret.cur
    /\ \E bp \in {plblk(ret.p)} :
           /\ blksize(St, bp) > Gross(Narrow(ret.n)) - MIN_BLKSZ
           /\ bp + blksize(St, bp) < blkowner(St, bp) + spans[blkowner(St, bp)].size
           /\ ~blkisfree(St, bp + blksize(St, bp))

\* C36: every munmap issued by a public operation is given the base address
\* and the size of a span that the provider mapped earlier and that is still
\* mapped, whose blkcount has come down to 0: the block being freed was the
\* only block in use, and no payload the caller holds lies inside it; the
\* span is not mapped afterwards, so it cannot be unmapped again.
C36_Unmap ==
    [][\A i \in DOMAIN ret'.munmaps :
           \E sp \in {ret'.munmaps[i][1]} : \E len \in {ret'.munmaps[i][2]} :
               /\ Len(ret'.munmaps) = 1
               /\ sp \in DOMAIN maps /\ maps[sp] = len
               /\ sp \in DOMAIN spans /\ spans[sp].size = len
               /\ sp \notin DOMAIN maps'
               /\ ret'.p # 0
               /\ blkowner(St, plblk(ret'.p)) = sp
               /\ spans[sp].blkcount = 1
               /\ {x \in InUse(St) : x[1] = sp} = {<<sp, plblk(ret'.p)>>}
               /\ \A q \in DOMAIN live' : q < sp \/ q >= sp + len]_vars

\* a resize moved a payload into a span it had to map and unmapped the span
\* the payload came from, while another span stayed mapped throughout
C36_Witness ==
    /\ halted = ""
    /\ ret.op = "realloc" /\ ret.p # 0
    /\ ret.mmaps # <<>> /\ ret.munmaps # <<>>
    /\ ret.munmaps[1][1] \notin DOMAIN maps
    /\ Cardinality(DOMAIN maps) = 2

\* C37: once an allocation has succeeded, every state the public operations
\* reach has span_count >= 1 (m_free never unmaps the last span) and at most
\* one mapped span with blkcount = 0. Stated over steps: a step that returns
\* a payload, or that starts with a span on the list, ends with a span on
\* the list and at most one idle span.
C37_LastSpan ==
    [][(/\ halted' = ""
        /\ \/ span_count >= 1
           \/ ret'.op \in {"malloc", "calloc", "realloc"} /\ ret'.res # 0) =>
           /\ span_count' >= 1
           /\ base' # 0
           /\ Cardinality({sp \in DOMAIN maps' : spans'[sp].blkcount = 0}) <= 1]_vars

\* the last block in use was freed and its span, the only one, stayed mapped
C37_Witness ==
    /\ halted = ""
    /\ ret.op = "free" /\ ret.p # 0 /\ ret.munmaps = <<>>
    /\ span_count = 1
    /\ \A sp \in DOMAIN maps : spans[sp].blkcount = 0
    /\ Mapped(St, ret.p)

\* C38: once a span is unmapped, no step touches its memory. After every
\* step of a public operation that does not halt: the span headers are
\* those of the mapped spans; every word that differs from what munmap leaves lies inside a mapping, so
\* neither the operation that unmapped a span nor a later one wrote to it;
\* the head of the span list and the links of every span are null or mapped
\* spans; and in every mapped span the head of the free list, the owner of
\* every block and the links of every free block are null or mapped. The
\* span a step unmaps is off the span list when the step ends.
C38_NoTouch ==
    [][(halted' = "" /\ ret'.op # "write") =>
           \E T \in {StNext} : \E m \in {T.mem} : \E D \in {DOMAIN T.maps} :
               LET RECURSIVE Cover(_, _, _)
                   \* the mappings cover [a, e), k of them at most
                   Cover(a, e, k) ==
                       \/ a >= e
                       \/ /\ k > 0
                          /\ \E b \in D : /\ b <= a /\ a < b + T.maps[b]
                                          /\ Cover(b + T.maps[b], e, k - 1)
                   In(a) == \E b \in D : b <= a /\ a < b + T.maps[b]
                   Ok(a) == a = 0 \/ In(a)
               IN  /\ DOMAIN T.spans = D
                   /\ m[Len(m)][2] = UNMAPPED
                   /\ \A i \in 1 .. Len(m) - 1 :
                          m[i][2] # UNMAPPED => Cover(m[i][1], m[i + 1][1], Cardinality(D))
                   /\ T.base \in D \cup {0}
                   /\ \A sp \in D :
                          /\ T.spans[sp].next \in D \cup {0}
                          /\ T.spans[sp].prev \in D \cup {0}
                          /\ Ok(T.spans[sp].free_list)
                          /\ \A b \in Range(BlocksOf(T, sp)) :
                                 /\ Narrow(Rd(m, b + OFF_OWNER)) \in D
                                 /\ blkisfree(T, b) =>
                                        /\ Ok(Narrow(Rd(m, b + OFF_NEXT)))
                                        /\ Ok(Narrow(Rd(m, b + OFF_PREV)))
                   /\ \A i \in DOMAIN ret'.munmaps :
                          /\ ret'.munmaps[i][1] \notin Range(SpanSeq(T))
                          /\ AllWords(m, ret'.munmaps[i][1],
                                      ret'.munmaps[i][1] + ret'.munmaps[i][2], UNMAPPED)]_vars

\* a span was unmapped between two mapped spans, and a later operation ran
\* with the hole in place
C38_Witness ==
    /\ halted = ""
    /\ ret.munmaps = <<>> /\ ret.op \in {"malloc", "calloc", "realloc", "free"}
    /\ SlotAddr(1) \in DOMAIN maps
    /\ SlotAddr(2) \notin DOMAIN maps
    /\ SlotAddr(3) \in DOMAIN maps
    /\ maps[SlotAddr(1)] = MIN_MMAPSZ
    /\ AllWords(mem, SlotAddr(2), SlotAddr(3), UNMAPPED)
    /\ frees.u > 0

\* C39: under valid use no assertion of the allocator fails. The process
\* stops at a failed assertion only when the caller frees a pointer a second
\* time, or asks for a size whose block size 48 + round_up(n, 16), or whose
\* span size 32 bytes above that, wraps around 2^64.
C39_NoAbort ==
    halted # "" =>
        LET N == IF ret.op = "calloc" THEN WMul(ret.n, ret.cnt) ELSE ret.n
            gross == blksizerequest(N)
        IN  \/ ret.op = "double free"
            \/ /\ ret.op \in {"malloc", "calloc", "realloc"}
               /\ WLt(gross, N) \/ WLt(WAdd(gross, U64(SPAN_HDR_PADSZ)), gross)

\* a run of valid operations used up the caller's budget of operations with
\* every assertion on its way passed: a truncation split a block, and the
\* free that came last merged its block with a free neighbour
C39_Witness ==
    /\ halted = ""
    /\ work = "resize"
    /\ nops = MaxOps + Workloads[work].d
    /\ ret.op = "free" /\ ret.p # 0 /\ ret.munmaps = <<>>
    /\ \E x \in AllBlocks(St) :
           /\ blkisfree(St, x[2])
           /\ x[2] <= plblk(ret.p)
           /\ blksize(St, x[2]) > ret.cur
           /\ spans[x[1]].blkcount > 0

\* C40: for every n in 1 .. SIZE_MAX, m_malloc(n) either returns null or
\* returns a payload of at least n bytes (the block size less 48); the sums
\* 48 + round_up(n, 16) and gross + 32, taken modulo 2^64, never yield a
\* block smaller than the request, and the call does not stop the process.
C40_Capacity ==
    (ret.op = "malloc" /\ ret.n # ZERO) =>
        /\ halted = ""
        /\ \/ ret.res = 0
           \/ WLe(ret.n, U64(plsize(St, plblk(ret.res))))

====
